---- MODULE Spec2Model ----
(***************************************************************************)
(* FetchXML paging engine of the Dataverse service client.                 *)
(*                                                                         *)
(* Text is a sequence of one-character strings, offsets are zero-based as  *)
(* in Rust (s[a..b] is Slice(s, a, b)), Option<T> is a sequence of length  *)
(* at most one, and Result<T, String> is a record with an ok flag.         *)
(***************************************************************************)
EXTENDS Integers, Sequences, FiniteSets, TLC

\* ------------------------------------------------------------------------
\* Bounds
\* ------------------------------------------------------------------------

\* Page at which the modelled server stops announcing more records.
MaxPages == 3

\* The clock is read up to this many seconds after the start.
MaxNow == 3

\* ------------------------------------------------------------------------
\* Option and Result
\* ------------------------------------------------------------------------

None == <<>>

Some(v) == <<v>>

is_some(o) == Len(o) = 1

Ok(v) == [ok |-> TRUE, val |-> v]

Err(class, msg) == [ok |-> FALSE, err |-> [class |-> class, msg |-> msg]]

\* let x = v; F(x): v is evaluated once, whatever number of times F uses it
Let(v, F(_)) == CHOOSE r \in {F(x) : x \in {v}} : TRUE

\* ------------------------------------------------------------------------
\* str primitives
\* ------------------------------------------------------------------------

NotFound == -1

SetMin(S) == CHOOSE m \in S : \A n \in S : m <= n

\* s[a..b]
Slice(s, a, b) == SubSeq(s, a + 1, b)

\* s[a..]
SliceFrom(s, a) == SubSeq(s, a + 1, Len(s))

\* str::find: byte offset of the first match, NotFound for Option::None
Find(hay, needle) ==
    Let(hay, LAMBDA h :
    Let(needle, LAMBDA n :
    Let({i \in 0..(Len(h) - Len(n)) : SubSeq(h, i + 1, i + Len(n)) = n}, LAMBDA hits :
        IF hits = {} THEN NotFound ELSE SetMin(hits))))

\* str::contains
Contains(hay, needle) == Find(hay, needle) # NotFound

RECURSIVE Replace(_, _, _)
\* str::replace(char, &str)
Replace(s, ch, with) ==
    Let(s, LAMBDA t :
        IF t = <<>> THEN <<>>
        ELSE (IF Head(t) = ch THEN with ELSE <<Head(t)>>) \o Replace(Tail(t), ch, with))

DecDigits == <<"0", "1", "2", "3", "4", "5", "6", "7", "8", "9">>

RECURSIVE to_string(_)
\* i32::to_string for the non-negative numbers the driver formats
to_string(n) ==
    IF n < 10 THEN <<DecDigits[n + 1]>>
    ELSE to_string(n \div 10) \o <<DecDigits[(n % 10) + 1]>>

\* ------------------------------------------------------------------------
\* Literals of fetchxml.rs and parse.rs
\* ------------------------------------------------------------------------

\* <fetch
FETCH_OPEN ==
    <<"<","f","e","t","c","h">>

\* aggregate="true"
AGGREGATE_TRUE ==
    <<"a","g","g","r","e","g","a","t","e","=","\"","t","r","u","e","\"">>

\* top
ATTR_TOP ==
    <<"t","o","p">>

\* count
ATTR_COUNT ==
    <<"c","o","u","n","t">>

\* page
ATTR_PAGE ==
    <<"p","a","g","e">>

\* paging-cookie
ATTR_PAGING_COOKIE ==
    <<"p","a","g","i","n","g","-","c","o","o","k","i","e">>

\* pagingcookie="
COOKIE_KEY ==
    <<"p","a","g","i","n","g","c","o","o","k","i","e","=","\"">>

\* &amp;
AMP ==
    <<"&","a","m","p",";">>

\* &lt;
LT ==
    <<"&","l","t",";">>

\* &gt;
GT ==
    <<"&","g","t",";">>

\* &quot;
QUOT ==
    <<"&","q","u","o","t",";">>

\* &apos;
APOS ==
    <<"&","a","p","o","s",";">>

ROW_NUMBER_ATTRIBUTE == "__rownum"

AGGREGATE_PAGE_SIZE == 5000

\* ------------------------------------------------------------------------
\* fetchxml.rs
\* ------------------------------------------------------------------------

E_NoFetch == Err("syntax", "FetchXML must start with a <fetch> element")

E_NotClosed == Err("syntax", "FetchXML <fetch> element is not closed")

E_InvalidAttr == Err("syntax", "Invalid fetch attribute")

\* fetchxml.find("<fetch")
fetch_start(fetchxml) == Find(fetchxml, FETCH_OPEN)

\* fetchxml[fetch_start..].find('>') + fetch_start
tag_end(fetchxml, start) ==
    Let(Find(SliceFrom(fetchxml, start), <<">">>), LAMBDA rel :
        IF rel = NotFound THEN NotFound ELSE rel + start)

\* fetch_tag_has_attr looking at the text from the tag's end on instead of
\* at the tag (&fetchxml[tag_end..])
fetch_tag_has_attr_after_tag(fetchxml, name) ==
    Let(fetch_start(fetchxml), LAMBDA start :
    IF start = NotFound THEN E_NoFetch
    ELSE
    Let(tag_end(fetchxml, start), LAMBDA end :
    IF end = NotFound THEN E_NotClosed
    ELSE Ok(Contains(SliceFrom(fetchxml, end), name \o <<"=">>))))

fetch_tag_has_attr(fetchxml, name) ==
    Let(fetch_start(fetchxml), LAMBDA start :
    IF start = NotFound THEN E_NoFetch
    ELSE
    Let(tag_end(fetchxml, start), LAMBDA end :
    IF end = NotFound THEN E_NotClosed
    ELSE
    Let(Slice(fetchxml, start, end + 1), LAMBDA tag :
        Ok(Contains(tag, name \o <<"=">>)))))

upsert_fetch_attr(fetchxml, name, value) ==
    Let(fetch_start(fetchxml), LAMBDA start :
    IF start = NotFound THEN E_NoFetch
    ELSE
    Let(tag_end(fetchxml, start), LAMBDA end :
    IF end = NotFound THEN E_NotClosed
    ELSE
    Let(Slice(fetchxml, start, end + 1), LAMBDA tag :
    Let(name \o <<"=">>, LAMBDA attr_key :
    Let(Find(tag, attr_key), LAMBDA attr_index :
    IF attr_index # NotFound
    THEN
      Let(attr_index + Len(attr_key), LAMBDA quote_index :
      IF quote_index >= Len(tag) THEN E_InvalidAttr
      ELSE IF tag[quote_index + 1] \notin {"\"", "'"} THEN E_InvalidAttr
      ELSE
      Let(quote_index + 1, LAMBDA value_start :
      Let(Find(SliceFrom(tag, value_start), <<tag[quote_index + 1]>>), LAMBDA rel :
      IF rel = NotFound THEN E_InvalidAttr
      ELSE
      Let(rel + value_start, LAMBDA value_end :
          Ok(Slice(fetchxml, 0, start + value_start)
             \o value
             \o SliceFrom(fetchxml, start + value_end))))))
    ELSE Ok(Slice(fetchxml, 0, end)
            \o <<" ">> \o name \o <<"=", "\"">> \o value \o <<"\"">>
            \o SliceFrom(fetchxml, end)))))))

\* escape_xml_attribute with '&' replaced last instead of first
escape_xml_attribute_amp_last(value) ==
    Replace(Replace(Replace(Replace(Replace(value,
        "<", LT), ">", GT), "\"", QUOT), "'", APOS), "&", AMP)

escape_xml_attribute(value) ==
    Replace(Replace(Replace(Replace(Replace(value,
        "&", AMP), "<", LT), ">", GT), "\"", QUOT), "'", APOS)

apply_paging(fetchxml, page_no, cookie) ==
    Let(upsert_fetch_attr(fetchxml, ATTR_PAGE, to_string(page_no)), LAMBDA updated :
        IF ~updated.ok THEN updated
        ELSE IF is_some(cookie)
             THEN upsert_fetch_attr(updated.val, ATTR_PAGING_COOKIE,
                                    escape_xml_attribute(cookie[1]))
             ELSE updated)

ensure_aggregate_page_size(fetchxml, aggregate_page_size) ==
    IF ~Contains(fetchxml, AGGREGATE_TRUE) THEN Ok(fetchxml)
    ELSE Let(fetch_tag_has_attr(fetchxml, ATTR_COUNT), LAMBDA has :
             IF ~has.ok THEN has
             ELSE IF has.val THEN Ok(fetchxml)
             ELSE upsert_fetch_attr(fetchxml, ATTR_COUNT, to_string(aggregate_page_size)))

\* ------------------------------------------------------------------------
\* JSON values (serde_json::Value) and row values (entity.rs)
\* ------------------------------------------------------------------------

JNull == [t |-> "null"]

JBool(b) == [t |-> "bool", v |-> b]

\* serde_json::Number: n is "PosInt" (u64), "NegInt" (i64) or "Float" (f64)
JNumber(n, v) == [t |-> "number", n |-> n, v |-> v]

JString(s) == [t |-> "string", v |-> s]

JArray(elems) == [t |-> "array", v |-> elems]

\* fields: a function from the object's keys to JSON values
JObject(fields) == [t |-> "object", v |-> fields]

\* Value::get(key): Some(field) of an object that has the key, else None
json_get(json, key) ==
    IF json.t = "object" /\ key \in DOMAIN json.v THEN Some(json.v[key]) ELSE None

Value_Int(i) == [variant |-> "Int", v |-> i]

Value_Float(f) == [variant |-> "Float", v |-> f]

Value_String(s) == [variant |-> "String", v |-> s]

Value_Boolean(b) == [variant |-> "Boolean", v |-> b]

Value_Null == [variant |-> "Null"]

\* HashMap::insert
insert(map, key, value) ==
    [k \in (DOMAIN map) \cup {key} |-> IF k = key THEN value ELSE map[k]]

\* Entity::new().attributes
EmptyMap == [k \in {} |-> Value_Null]

\* i64::MAX, scaled to eight bits so that wire integers on both sides of
\* it are representable.
I64_MAX == 127

\* The spacing of the f64 values above i64::MAX, on the scale of I64_MAX.
F64_ULP == 4

\* i as f64 for an i above i64::MAX: the nearest f64, ties to the even one
u64_as_f64(i) ==
    Let(i \div F64_ULP, LAMBDA q :
        IF 2 * (i % F64_ULP) < F64_ULP THEN q * F64_ULP
        ELSE IF 2 * (i % F64_ULP) > F64_ULP THEN (q + 1) * F64_ULP
        ELSE IF q % 2 = 0 THEN q * F64_ULP
        ELSE (q + 1) * F64_ULP)

\* ------------------------------------------------------------------------
\* urlencoding::decode, as called by parse.rs
\* ------------------------------------------------------------------------

\* The printable ASCII characters, code 32 at index 1 (code 96, which a
\* string literal cannot hold, is spelled out).
Printable ==
    <<" ","!","\"","#","$","%","&","'","(",")","*","+",",","-",".","/","0","1","2","3",
      "4","5","6","7","8","9",":",";","<","=",">","?","@","A","B","C","D","E","F","G","H",
      "I","J","K","L","M","N","O","P","Q","R","S","T","U","V","W","X","Y","Z","[","\\",
      "]","^","_","GRAVE","a","b","c","d","e","f","g","h","i","j","k","l","m","n","o","p","q",
      "r","s","t","u","v","w","x","y","z","{","|","}","~">>

Ord(c) == 31 + (CHOOSE i \in 1..Len(Printable) : Printable[i] = c)

Chr(b) == Printable[b - 31]

HexDigits == <<"0","1","2","3","4","5","6","7","8","9","a","b","c","d","e","f">>

HexUpper == <<"0","1","2","3","4","5","6","7","8","9","A","B","C","D","E","F">>

is_hex(c) == \E i \in 1..16 : HexDigits[i] = c \/ HexUpper[i] = c

from_hex_digit(c) == (CHOOSE i \in 1..16 : HexDigits[i] = c \/ HexUpper[i] = c) - 1

RECURSIVE decode_binary(_)
\* The bytes of the decoded text: %XY with two hex digits is one byte, any
\* other '%' stays as it is.
decode_binary(data) ==
    Let(data, LAMBDA d :
        IF d = <<>> THEN <<>>
        ELSE IF Head(d) # "%" THEN <<Ord(Head(d))>> \o decode_binary(Tail(d))
        ELSE IF Len(d) < 3 THEN [i \in 1..Len(d) |-> Ord(d[i])]
        ELSE IF ~is_hex(d[2]) THEN <<Ord("%")>> \o decode_binary(Tail(d))
        ELSE IF ~is_hex(d[3]) THEN <<Ord("%"), Ord(d[2])>> \o decode_binary(SliceFrom(d, 2))
        ELSE <<from_hex_digit(d[2]) * 16 + from_hex_digit(d[3])>>
             \o decode_binary(SliceFrom(d, 3)))

\* String::from_utf8 on the decoded bytes; the modelled texts are ASCII, so a
\* byte above 127 is a byte sequence that is not UTF-8.
decode(data) ==
    Let(decode_binary(data), LAMBDA bytes :
        IF \E i \in 1..Len(bytes) : bytes[i] > 127
        THEN Err("utf8", "invalid utf-8 sequence")
        ELSE Ok([i \in 1..Len(bytes) |-> Chr(bytes[i])]))

\* urlencoding::encode keeps these characters as they are
is_unreserved(c) ==
    \/ Ord(c) \in Ord("0")..Ord("9")
    \/ Ord(c) \in Ord("A")..Ord("Z")
    \/ Ord(c) \in Ord("a")..Ord("z")
    \/ c \in {"-", "_", ".", "~"}

\* urlencoding::encode of one byte: every byte that is not unreserved
\* becomes %XX, in upper-case hex
encode_byte ==
    [c \in {Printable[i] : i \in 1..Len(Printable)} |->
        IF is_unreserved(c) THEN <<c>>
        ELSE <<"%", HexUpper[(Ord(c) \div 16) + 1], HexUpper[(Ord(c) % 16) + 1]>>]

RECURSIVE encode(_)
\* urlencoding::encode
encode(data) ==
    IF data = <<>> THEN <<>>
    ELSE encode_byte[Head(data)] \o encode(Tail(data))

UpperLetters ==
    <<"A","B","C","D","E","F","G","H","I","J","K","L","M",
      "N","O","P","Q","R","S","T","U","V","W","X","Y","Z">>

LowerLetters ==
    <<"a","b","c","d","e","f","g","h","i","j","k","l","m",
      "n","o","p","q","r","s","t","u","v","w","x","y","z">>

to_ascii_lowercase(c) ==
    IF \E i \in 1..26 : UpperLetters[i] = c
    THEN LowerLetters[CHOOSE i \in 1..26 : UpperLetters[i] = c]
    ELSE c

eq_ignore_ascii_case(a, b) ==
    /\ Len(a) = Len(b)
    /\ \A i \in 1..Len(a) : to_ascii_lowercase(a[i]) = to_ascii_lowercase(b[i])

\* ------------------------------------------------------------------------
\* parse.rs
\* ------------------------------------------------------------------------

MORERECORDS == "@Microsoft.Dynamics.CRM.morerecords"

FETCHXMLPAGINGCOOKIE == "@Microsoft.Dynamics.CRM.fetchxmlpagingcookie"

E_InvalidResponse == Err("malformed", "Invalid response from Dataverse")

\* parse_more_records taking a missing annotation for true (_ => true)
parse_more_records_default_true(json) ==
    Let(json_get(json, MORERECORDS), LAMBDA a :
        IF ~is_some(a) THEN TRUE
        ELSE IF a[1].t = "bool" THEN a[1].v
        ELSE IF a[1].t = "string" THEN eq_ignore_ascii_case(a[1].v, <<"t","r","u","e">>)
        ELSE FALSE)

\* parse_more_records comparing the string with == "true"
parse_more_records_exact(json) ==
    Let(json_get(json, MORERECORDS), LAMBDA a :
        IF ~is_some(a) THEN FALSE
        ELSE IF a[1].t = "bool" THEN a[1].v
        ELSE IF a[1].t = "string" THEN a[1].v = <<"t","r","u","e">>
        ELSE FALSE)

parse_more_records(json) ==
    Let(json_get(json, MORERECORDS), LAMBDA a :
        IF ~is_some(a) THEN FALSE
        ELSE IF a[1].t = "bool" THEN a[1].v
        ELSE IF a[1].t = "string" THEN eq_ignore_ascii_case(a[1].v, <<"t","r","u","e">>)
        ELSE FALSE)

\* extract_paging_cookie decoding the fragment once (no decoded_twice)
extract_paging_cookie_once(json) ==
    Let(json_get(json, FETCHXMLPAGINGCOOKIE), LAMBDA a :
    IF ~is_some(a) \/ a[1].t # "string" THEN None
    ELSE
    Let(a[1].v, LAMBDA cookie_element :
    Let(Find(cookie_element, COOKIE_KEY), LAMBDA at :
    IF at = NotFound THEN None
    ELSE
    Let(at + Len(COOKIE_KEY), LAMBDA start :
    Let(Find(SliceFrom(cookie_element, start), <<"\"">>), LAMBDA rel :
    IF rel = NotFound THEN None
    ELSE
    Let(rel + start, LAMBDA end :
    Let(decode(Slice(cookie_element, start, end)), LAMBDA decoded_once :
        IF ~decoded_once.ok THEN None
        ELSE Some(decoded_once.val))))))))

extract_paging_cookie(json) ==
    Let(json_get(json, FETCHXMLPAGINGCOOKIE), LAMBDA a :
    IF ~is_some(a) \/ a[1].t # "string" THEN None
    ELSE
    Let(a[1].v, LAMBDA cookie_element :
    Let(Find(cookie_element, COOKIE_KEY), LAMBDA at :
    IF at = NotFound THEN None
    ELSE
    Let(at + Len(COOKIE_KEY), LAMBDA start :
    Let(Find(SliceFrom(cookie_element, start), <<"\"">>), LAMBDA rel :
    IF rel = NotFound THEN None
    ELSE
    Let(rel + start, LAMBDA end :
    Let(decode(Slice(cookie_element, start, end)), LAMBDA decoded_once :
    IF ~decoded_once.ok THEN None
    ELSE
    Let(decode(decoded_once.val), LAMBDA decoded_twice :
        IF ~decoded_twice.ok THEN None
        ELSE Some(decoded_twice.val)))))))))

is_i64(value) ==
    /\ value.t = "number"
    /\ \/ value.n = "NegInt"
       \/ value.n = "PosInt" /\ value.v <= I64_MAX

is_u64(value) == value.t = "number" /\ value.n = "PosInt"

is_f64(value) == value.t = "number" /\ value.n = "Float"

\* add_attribute asking is_u64 first and making every unsigned integer a
\* Float
add_attribute_unsigned_float(attributes, key, value) ==
    IF value.t = "null" THEN insert(attributes, key, Value_Null)
    ELSE IF is_u64(value) THEN insert(attributes, key, Value_Float(u64_as_f64(value.v)))
    ELSE IF is_i64(value) THEN insert(attributes, key, Value_Int(value.v))
    ELSE IF is_f64(value) THEN insert(attributes, key, Value_Float(value.v))
    ELSE IF value.t = "string" THEN insert(attributes, key, Value_String(value.v))
    ELSE IF value.t = "bool" THEN insert(attributes, key, Value_Boolean(value.v))
    ELSE attributes

\* The attribute map after add_attribute; the function always returns Ok(true).
add_attribute(attributes, key, value) ==
    IF value.t = "null" THEN insert(attributes, key, Value_Null)
    ELSE IF is_i64(value) THEN insert(attributes, key, Value_Int(value.v))
    ELSE IF is_u64(value)
         THEN IF value.v <= I64_MAX
              THEN insert(attributes, key, Value_Int(value.v))
              ELSE insert(attributes, key, Value_Float(u64_as_f64(value.v)))
    ELSE IF is_f64(value) THEN insert(attributes, key, Value_Float(value.v))
    ELSE IF value.t = "string" THEN insert(attributes, key, Value_String(value.v))
    ELSE IF value.t = "bool" THEN insert(attributes, key, Value_Boolean(value.v))
    ELSE attributes

RECURSIVE add_record_fields(_, _, _)
\* for (key, value) in record { add_attribute(&mut entity.attributes, ...) }
add_record_fields(attributes, record, keys) ==
    Let(keys, LAMBDA rest :
        IF rest = {} THEN attributes
        ELSE Let(CHOOSE k \in rest : TRUE, LAMBDA key :
                 add_record_fields(add_attribute(attributes, key, record[key]),
                                   record, rest \ {key})))

RECURSIVE parse_records_break(_, _)
\* parse_records leaving the loop at an element that is no object (break
\* instead of the error)
parse_records_break(response_array, entities) ==
    Let(response_array, LAMBDA rest :
        IF rest = <<>> THEN Ok(entities)
        ELSE IF Head(rest).t # "object" THEN Ok(entities)
        ELSE parse_records_break(Tail(rest),
               Append(entities,
                      add_record_fields(EmptyMap, Head(rest).v, DOMAIN Head(rest).v))))

RECURSIVE parse_records(_, _)
\* The loop over response_array, with the entities pushed so far.
parse_records(response_array, entities) ==
    Let(response_array, LAMBDA rest :
        IF rest = <<>> THEN Ok(entities)
        ELSE IF Head(rest).t # "object" THEN E_InvalidResponse
        ELSE parse_records(Tail(rest),
               Append(entities,
                      add_record_fields(EmptyMap, Head(rest).v, DOMAIN Head(rest).v))))

\* parse_entities_from_response taking a missing `value` for no rows
\* (unwrap_or_default instead of the error)
parse_entities_from_response_lenient(json) ==
    IF json.t # "object" THEN E_InvalidResponse
    ELSE IF "value" \notin DOMAIN json.v THEN Ok(<<>>)
    ELSE IF json.v["value"].t # "array" THEN E_InvalidResponse
    ELSE parse_records(json.v["value"].v, <<>>)

parse_entities_from_response(json) ==
    IF json.t # "object" THEN E_InvalidResponse
    ELSE IF "value" \notin DOMAIN json.v THEN E_InvalidResponse
    ELSE IF json.v["value"].t # "array" THEN E_InvalidResponse
    ELSE parse_records(json.v["value"].v, <<>>)

parse_record_count_from_response(json) ==
    IF json.t # "object" THEN E_InvalidResponse
    ELSE IF "value" \notin DOMAIN json.v THEN E_InvalidResponse
    ELSE IF json.v["value"].t # "array" THEN E_InvalidResponse
    ELSE Ok(Len(json.v["value"].v))

\* ------------------------------------------------------------------------
\* Inputs: the caller's queries
\* ------------------------------------------------------------------------

\* <fetch><entity name="t"/></fetch>
Q_plain ==
    <<"<","f","e","t","c","h",">","<","e","n","t","i","t","y"," ","n","a","m","e","=","\"","t",
      "\"","/",">","<","/","f","e","t","c","h",">">>

\* <fetch top="1"><entity name="t"/></fetch>
Q_top ==
    <<"<","f","e","t","c","h"," ","t","o","p","=","\"","1","\"",">","<","e","n","t","i","t","y",
      " ","n","a","m","e","=","\"","t","\"","/",">","<","/","f","e","t","c","h",">">>

\* <foo/>
Q_foo ==
    <<"<","f","o","o","/",">">>

\* <fetch page="1"
Q_unclosed ==
    <<"<","f","e","t","c","h"," ","p","a","g","e","=","\"","1","\"">>

\* <fetch page=1><entity name="t"/></fetch>
Q_badpage ==
    <<"<","f","e","t","c","h"," ","p","a","g","e","=","1",">","<","e","n","t","i","t","y"," ",
      "n","a","m","e","=","\"","t","\"","/",">","<","/","f","e","t","c","h",">">>

\* <fetch paging-cookie=x><entity name="t"/></fetch>
Q_badcookie ==
    <<"<","f","e","t","c","h"," ","p","a","g","i","n","g","-","c","o","o","k","i","e","=","x",
      ">","<","e","n","t","i","t","y"," ","n","a","m","e","=","\"","t","\"","/",">","<","/","f",
      "e","t","c","h",">">>

\* <fetch aggregate="true"><entity name="t"/></fetch>
Q_agg ==
    <<"<","f","e","t","c","h"," ","a","g","g","r","e","g","a","t","e","=","\"","t","r","u","e",
      "\"",">","<","e","n","t","i","t","y"," ","n","a","m","e","=","\"","t","\"","/",">","<",
      "/","f","e","t","c","h",">">>

\* <fetch page="5" paging-cookie='old'><entity name="t"/></fetch>
Q_paged ==
    <<"<","f","e","t","c","h"," ","p","a","g","e","=","\"","5","\""," ","p","a","g","i","n","g",
      "-","c","o","o","k","i","e","=","'","o","l","d","'",">","<","e","n","t","i","t","y"," ",
      "n","a","m","e","=","\"","t","\"","/",">","<","/","f","e","t","c","h",">">>

\* <fetch paging-cookie='&lt;c page="1"/&gt;'><entity name="t"/></fetch>
Q_cookie_page ==
    <<"<","f","e","t","c","h"," ","p","a","g","i","n","g","-","c","o","o","k","i","e","=","'",
      "&","l","t",";","c"," ","p","a","g","e","=","\"","1","\"","/","&","g","t",";","'",">","<",
      "e","n","t","i","t","y"," ","n","a","m","e","=","\"","t","\"","/",">","<","/","f","e","t",
      "c","h",">">>

\* <fetch top="1" aggregate="true"><entity name="t"/></fetch>
Q_top_agg ==
    <<"<","f","e","t","c","h"," ","t","o","p","=","\"","1","\""," ","a","g","g","r","e","g","a",
      "t","e","=","\"","t","r","u","e","\"",">","<","e","n","t","i","t","y"," ","n","a","m","e",
      "=","\"","t","\"","/",">","<","/","f","e","t","c","h",">">>

\* <fetch top = "1"><entity name="t"/></fetch>
Q_top_spaced ==
    <<"<","f","e","t","c","h"," ","t","o","p"," ","="," ","\"","1","\"",">","<","e","n","t","i",
      "t","y"," ","n","a","m","e","=","\"","t","\"","/",">","<","/","f","e","t","c","h",">">>

\* <fetch stop="1"><entity name="t"/></fetch>
Q_stop ==
    <<"<","f","e","t","c","h"," ","s","t","o","p","=","\"","1","\"",">","<","e","n","t","i","t",
      "y"," ","n","a","m","e","=","\"","t","\"","/",">","<","/","f","e","t","c","h",">">>

\* <fetch note="top=1"><entity name="t"/></fetch>
Q_value_top ==
    <<"<","f","e","t","c","h"," ","n","o","t","e","=","\"","t","o","p","=","1","\"",">","<","e",
      "n","t","i","t","y"," ","n","a","m","e","=","\"","t","\"","/",">","<","/","f","e","t","c",
      "h",">">>

\* <fetch><entity name="t" top="1"/></fetch>
Q_child_top ==
    <<"<","f","e","t","c","h",">","<","e","n","t","i","t","y"," ","n","a","m","e","=","\"","t",
      "\""," ","t","o","p","=","\"","1","\"","/",">","<","/","f","e","t","c","h",">">>

\* <fetch aggregate='true'><entity name="t"/></fetch>
Q_agg_single ==
    <<"<","f","e","t","c","h"," ","a","g","g","r","e","g","a","t","e","=","'","t","r","u","e",
      "'",">","<","e","n","t","i","t","y"," ","n","a","m","e","=","\"","t","\"","/",">","<","/",
      "f","e","t","c","h",">">>

\* <fetch aggregate="true" count="10"><entity name="t"/></fetch>
Q_agg_count ==
    <<"<","f","e","t","c","h"," ","a","g","g","r","e","g","a","t","e","=","\"","t","r","u","e",
      "\""," ","c","o","u","n","t","=","\"","1","0","\"",">","<","e","n","t","i","t","y"," ",
      "n","a","m","e","=","\"","t","\"","/",">","<","/","f","e","t","c","h",">">>

\* <fetch returntotalrecordcount="true" aggregate="true"><entity name="t"/></fetch>
Q_agg_rtrc ==
    <<"<","f","e","t","c","h"," ","r","e","t","u","r","n","t","o","t","a","l","r","e","c","o",
      "r","d","c","o","u","n","t","=","\"","t","r","u","e","\""," ","a","g","g","r","e","g","a",
      "t","e","=","\"","t","r","u","e","\"",">","<","e","n","t","i","t","y"," ","n","a","m","e",
      "=","\"","t","\"","/",">","<","/","f","e","t","c","h",">">>

\* <fetch><entity name="t"/><note v='aggregate="true"'/></fetch>
Q_agg_elsewhere ==
    <<"<","f","e","t","c","h",">","<","e","n","t","i","t","y"," ","n","a","m","e","=","\"","t",
      "\"","/",">","<","n","o","t","e"," ","v","=","'","a","g","g","r","e","g","a","t","e","=",
      "\"","t","r","u","e","\"","'","/",">","<","/","f","e","t","c","h",">">>

\* <fetch homepage="x"><entity name="t"/></fetch>
Q_homepage ==
    <<"<","f","e","t","c","h"," ","h","o","m","e","p","a","g","e","=","\"","x","\"",">","<","e",
      "n","t","i","t","y"," ","n","a","m","e","=","\"","t","\"","/",">","<","/","f","e","t","c",
      "h",">">>

\* <fetch note="a>b"><entity name="t"/></fetch>
Q_gt ==
    <<"<","f","e","t","c","h"," ","n","o","t","e","=","\"","a",">","b","\"",">","<","e","n","t",
      "i","t","y"," ","n","a","m","e","=","\"","t","\"","/",">","<","/","f","e","t","c","h",">">>

\* Queries whose root tag carries a top attribute.
TopQueries == {Q_top}

\* Queries a call can be made with.
Queries == {Q_plain, Q_top, Q_foo, Q_unclosed, Q_badpage, Q_badcookie, Q_agg}

\* Queries with a well-formed root tag a call can be made with: attributes the
\* caller supplies for top, paging and aggregation, in the forms XML allows.
DriverQueries ==
    {Q_plain, Q_agg, Q_top, Q_top_agg, Q_paged, Q_cookie_page, Q_top_spaced, Q_stop,
     Q_agg_single}

\* ------------------------------------------------------------------------
\* Inputs: what the server can answer to one request
\* ------------------------------------------------------------------------

\* <cookie pagingcookie="AB"/>
COOKIE_AB ==
    <<"<","c","o","o","k","i","e"," ","p","a","g","i","n","g","c","o","o","k","i","e","=","\"",
      "A","B","\"","/",">">>

\* <cookie pagingcookie="%2526%253C"/>
COOKIE_AMP ==
    <<"<","c","o","o","k","i","e"," ","p","a","g","i","n","g","c","o","o","k","i","e","=","\"",
      "%","2","5","2","6","%","2","5","3","C","\"","/",">">>

\* <cookie pagingcookie="%FF"/>
COOKIE_UNDECODABLE ==
    <<"<","c","o","o","k","i","e"," ","p","a","g","i","n","g","c","o","o","k","i","e","=","\"",
      "%","F","F","\"","/",">">>

\* <cookie page="1"/>
COOKIE_NOFRAGMENT ==
    <<"<","c","o","o","k","i","e"," ","p","a","g","e","=","\"","1","\"","/",">">>

\* <cookie pagingcookie="AB
COOKIE_UNCLOSED ==
    <<"<","c","o","o","k","i","e"," ","p","a","g","i","n","g","c","o","o","k","i","e","=","\"",
      "A","B">>

\* <cookie pagingcookie=""/>
COOKIE_EMPTY ==
    <<"<","c","o","o","k","i","e"," ","p","a","g","i","n","g","c","o","o","k","i","e","=","\"",
      "\"","/",">">>

\* <cookie pagingcookie="%25FF"/>
COOKIE_TWICE_UNDECODABLE ==
    <<"<","c","o","o","k","i","e"," ","p","a","g","i","n","g","c","o","o","k","i","e","=","\"",
      "%","2","5","F","F","\"","/",">">>

\* <cookie pagingcookie="%2541"/>
COOKIE_ONCE ==
    <<"<","c","o","o","k","i","e"," ","p","a","g","i","n","g","c","o","o","k","i","e","=","\"",
      "%","2","5","4","1","\"","/",">">>

\* <cookie pagingcookie="A" x="y" pagingcookie="B"/>
COOKIE_TWO ==
    <<"<","c","o","o","k","i","e"," ","p","a","g","i","n","g","c","o","o","k","i","e","=","\"",
      "A","\""," ","x","=","\"","y","\""," ","p","a","g","i","n","g","c","o","o","k","i","e",
      "=","\"","B","\"","/",">">>

\* <cookie pagingcookie='AB'/>
COOKIE_SINGLE_QUOTED ==
    <<"<","c","o","o","k","i","e"," ","p","a","g","i","n","g","c","o","o","k","i","e","=","'",
      "A","B","'","/",">">>

\* boom
BODY_BOOM ==
    <<"b","o","o","m">>

\* reqwest: send() failed
NetworkFailure == [kind |-> "network_failure"]

\* A response with a non-success status; text is None when the body cannot
\* be read (resp.text() fails).
HttpError(status, text) == [kind |-> "http", status |-> status, text |-> text]

\* A response with status 200; json is None when the body is not JSON
\* (resp.json() fails).
HttpJson(json) == [kind |-> "http", status |-> 200, json |-> json]

is_success(status) == status \in 200..299

Row_a == JObject([k \in {"name"} |-> JString(<<"a">>)])

\* a payload row that already has a field named __rownum
Row_b ==
    JObject([k \in {"name", "__rownum"} |->
                IF k = "name" THEN JString(<<"b">>) ELSE JNumber("PosInt", 7)])

Row_c ==
    JObject([k \in {"n", "tags"} |->
                IF k = "n" THEN JNumber("PosInt", 200) ELSE JArray(<<>>)])

\* a row of numbers: integers on both sides of zero and of i64::MAX, and
\* numbers written with a fraction part or an exponent (2.0, 1e2, -3.0)
Row_numbers ==
    JObject([k \in {"neg", "zero", "five", "max", "over", "odd", "top",
                    "two", "hundred", "minus"} |->
                CASE k = "neg"     -> JNumber("NegInt", -5)
                  [] k = "zero"    -> JNumber("PosInt", 0)
                  [] k = "five"    -> JNumber("PosInt", 5)
                  [] k = "max"     -> JNumber("PosInt", I64_MAX)
                  [] k = "over"    -> JNumber("PosInt", I64_MAX + 1)
                  [] k = "odd"     -> JNumber("PosInt", I64_MAX + 3)
                  [] k = "top"     -> JNumber("PosInt", 2 * I64_MAX + 1)
                  [] k = "two"     -> JNumber("Float", 2)
                  [] k = "hundred" -> JNumber("Float", 100)
                  [] k = "minus"   -> JNumber("Float", -3)])

\* a row with a field of every other kind of JSON value, and the number five
\* under a second key
Row_mixed ==
    JObject([k \in {"s", "b", "z", "o", "a", "n"} |->
                CASE k = "s" -> JString(<<"x">>)
                  [] k = "b" -> JBool(FALSE)
                  [] k = "z" -> JNull
                  [] k = "o" -> JObject([j \in {"id"} |-> JNumber("PosInt", 1)])
                  [] k = "a" -> JArray(<<JNumber("PosInt", 1), JNumber("PosInt", 2)>>)
                  [] k = "n" -> JNumber("PosInt", 5)])

\* {"value": rows, morerecords: more, fetchxmlpagingcookie: cookie}; an
\* annotation given as None is left out of the object
Page(rows, more, cookie) ==
    JObject([k \in {"value"}
                   \cup (IF is_some(more) THEN {MORERECORDS} ELSE {})
                   \cup (IF is_some(cookie) THEN {FETCHXMLPAGINGCOOKIE} ELSE {}) |->
                IF k = "value" THEN JArray(rows)
                ELSE IF k = MORERECORDS THEN more[1]
                ELSE cookie[1]])

\* {"notvalue": [], morerecords: true, fetchxmlpagingcookie: ...AB...}
Payload_notvalue ==
    JObject([k \in {"notvalue", MORERECORDS, FETCHXMLPAGINGCOOKIE} |->
                IF k = "notvalue" THEN JArray(<<>>)
                ELSE IF k = MORERECORDS THEN JBool(TRUE)
                ELSE JString(COOKIE_AB)])

\* {"value": "x", morerecords: true}
Payload_value_not_array ==
    JObject([k \in {"value", MORERECORDS} |->
                IF k = "value" THEN JString(<<"x">>) ELSE JBool(TRUE)])

\* Answers that announce more records.
MoreResponses ==
    << HttpJson(Some(Page(<<Row_a, Row_b>>, Some(JBool(TRUE)), Some(JString(COOKIE_AB))))),
       HttpJson(Some(Page(<<>>, Some(JString(<<"T","r","u","e">>)), Some(JString(COOKIE_AMP))))),
       HttpJson(Some(Page(<<Row_c>>, Some(JBool(TRUE)), None))),
       HttpJson(Some(Page(<<Row_a>>, Some(JBool(TRUE)), Some(JString(COOKIE_UNDECODABLE))))),
       HttpJson(Some(Page(<<Row_b>>, Some(JBool(TRUE)), Some(JString(COOKIE_NOFRAGMENT))))),
       HttpJson(Some(Page(<<Row_a, JNumber("PosInt", 5)>>, Some(JBool(TRUE)),
                          Some(JString(COOKIE_AB))))),
       HttpJson(Some(Payload_notvalue)),
       HttpJson(Some(Payload_value_not_array)) >>

\* Answers that announce no more records, or that are no page at all.
LastResponses ==
    << HttpJson(Some(Page(<<Row_a>>, None, None))),
       HttpJson(Some(Page(<<Row_b, Row_c>>, Some(JBool(FALSE)), Some(JString(COOKIE_AB))))),
       HttpJson(Some(Page(<<JString(<<"x">>)>>, Some(JString(<<"n","o">>)), None))),
       HttpJson(Some(JArray(<<>>))),
       HttpJson(None),
       HttpError(500, Some(BODY_BOOM)),
       HttpError(404, None),
       NetworkFailure >>

\* The answers the modelled server chooses from.
Responses == MoreResponses \o LastResponses

\* What the server can answer to the request for page p: it stops announcing
\* more records at page MaxPages.  A request outside the paging loop is page 0.
Answers(p) ==
    {i \in 1..Len(Responses) : p < MaxPages \/ i > Len(MoreResponses)}

\* ------------------------------------------------------------------------
\* serviceclient.rs: state
\* ------------------------------------------------------------------------

Calls == {1, 2}

VARIABLES
    operation,      \* call -> "rows" (retrieve_multiple_fetchxml) or "count"
    fetchxml,       \* call -> the caller's query
    pc,             \* call -> where the call stands
    page,           \* call -> let mut page
    paging_cookie,  \* call -> let mut paging_cookie
    entities,       \* call -> let mut entities (rows)
    total,          \* call -> let mut total (count)
    sent,           \* call -> the fetchXml texts of the requests sent so far
    result,         \* call -> None while running, Some(Result) once returned
    served,         \* the server: request text -> index of its answer
    args,           \* the arguments of a call of a fetchxml.rs function
    ret,            \* the function called with them and what it returned
    log_level,      \* call -> self.log_level of the client the call is made on
    stdout,         \* call -> the lines the call has printed
    cache,          \* the token cache: key -> CachedToken
    now             \* now_secs(): the clock

vars ==
    <<operation, fetchxml, pc, page, paging_cookie, entities, total, sent, result, served,
      args, ret, log_level, stdout, cache, now>>

\* The arguments a fetchxml.rs function can take, and no function called yet.
NoArgs ==
    [fetchxml |-> <<>>, name |-> <<>>, value |-> <<>>, page |-> 1, paging_cookie |-> None]

NotCalled == [fn |-> "none"]

\* HashMap::new(): a cache without tokens
NoTokens == [k \in {} |-> [access_token |-> <<>>, expires_at |-> None]]

\* /api/data/v9.2/
API_PATH ==
    <<"/","a","p","i","/","d","a","t","a","/","v","9",".","2","/">>

\* ?fetchXml=
FETCHXML_PARAM ==
    <<"?","f","e","t","c","h","X","m","l","=">>

\* Fetch page: 
LOG_FETCH_PAGE ==
    <<"F","e","t","c","h"," ","p","a","g","e",":"," ">>

\* FetchXML: 
LOG_FETCHXML ==
    <<"F","e","t","c","h","X","M","L",":"," ">>

\* Url: 
LOG_URL ==
    <<"U","r","l",":"," ">>

\* https://org.example
BASE_URL ==
    <<"h","t","t","p","s",":","/","/","o","r","g",".","e","x","a","m","p","l","e">>

\* accounts
ENTITY_SET ==
    <<"a","c","c","o","u","n","t","s">>

\* format!("{}/api/data/v9.2/{}", self.base_url, entity) with "?fetchXml=" and
\* the encoded query text pushed on
url(base_url, entity, fetch_text) ==
    base_url \o API_PATH \o entity \o FETCHXML_PARAM \o encode(fetch_text)

\* println!("Url: {:?}", url): the text between double quotes (no character
\* of a url built from these texts is escaped by {:?})
print_url(u) == LOG_URL \o <<"\"">> \o u \o <<"\"">>

\* What the paging loop prints before a request when the level is Debug.
debug_lines_page(page_no, fetch_with_paging) ==
    << LOG_FETCH_PAGE \o to_string(page_no),
       LOG_FETCHXML \o fetch_with_paging,
       print_url(url(BASE_URL, ENTITY_SET, fetch_with_paging)) >>

\* What retrieve_multiple_fetchxml_single prints before its request when the
\* level is Debug.
debug_lines_single(fetch_text) ==
    << LOG_FETCHXML \o fetch_text, print_url(url(BASE_URL, ENTITY_SET, fetch_text)) >>

E_RequestFailed ==
    [ok |-> FALSE,
     err |-> [class |-> "transport", msg |-> "Request failed", status |-> 0, body |-> <<>>]]

\* E_ApiError without the body (format!("Dataverse API error ({})", status))
E_ApiError_no_body(status, body) ==
    [ok |-> FALSE,
     err |-> [class |-> "transport", msg |-> "Dataverse API error",
              status |-> status, body |-> <<>>]]

\* format!("Dataverse API error ({}): {}", status, body)
E_ApiError(status, body) ==
    [ok |-> FALSE,
     err |-> [class |-> "transport", msg |-> "Dataverse API error",
              status |-> status, body |-> body]]

E_ParseJson == Err("malformed", "Failed to parse JSON")

\* Option::unwrap_or_default
unwrap_or_default(text) == IF is_some(text) THEN text[1] ELSE <<>>

\* The request a call is waiting on, and the answer it gets.
Request(c) == sent[c][Len(sent[c])]

Init ==
    /\ operation = [c \in Calls |-> IF c = 1 THEN "rows" ELSE "count"]
    /\ \E q \in Queries : fetchxml = [c \in Calls |-> q]
    /\ pc = [c \in Calls |-> "start"]
    /\ page = [c \in Calls |-> 0]
    /\ paging_cookie = [c \in Calls |-> None]
    /\ entities = [c \in Calls |-> <<>>]
    /\ total = [c \in Calls |-> 0]
    /\ sent = [c \in Calls |-> <<>>]
    /\ result = [c \in Calls |-> None]
    /\ served = [r \in {} |-> 0]
    /\ args = NoArgs
    /\ ret = NotCalled
    /\ log_level = [c \in Calls |-> "Information"]
    /\ stdout = [c \in Calls |-> <<>>]
    /\ cache = NoTokens
    /\ now = 0

\* return: the call ends with the given Result
Return(c, r) ==
    /\ result' = [result EXCEPT ![c] = Some(r)]
    /\ pc' = [pc EXCEPT ![c] = "done"]

\* The server answers the request call c waits on: a request it has seen
\* gets the answer it got before.
Answer(c, i) ==
    /\ i \in Answers(page[c])
    /\ Request(c) \in DOMAIN served => i = served[Request(c)]
    /\ served' = [r \in (DOMAIN served) \cup {Request(c)} |->
                     IF r = Request(c) THEN i ELSE served[r]]

\* ------------------------------------------------------------------------
\* serviceclient.rs: operations
\* ------------------------------------------------------------------------

\* retrieve_multiple_fetchxml / retrieve_multiple_fetchxml_count up to the
\* loop: the top check chooses the single request or the paging loop.
Start(c) ==
    /\ pc[c] = "start"
    /\ \E has \in {fetch_tag_has_attr(fetchxml[c], ATTR_TOP)} :
         IF ~has.ok
         THEN /\ Return(c, has)
              /\ UNCHANGED <<page, paging_cookie, entities, total>>
         ELSE IF has.val
         THEN /\ pc' = [pc EXCEPT ![c] = "single"]
              /\ UNCHANGED <<page, paging_cookie, entities, total, result>>
         ELSE /\ page' = [page EXCEPT ![c] = 1]
              /\ paging_cookie' = [paging_cookie EXCEPT ![c] = None]
              /\ entities' = [entities EXCEPT ![c] = <<>>]
              /\ total' = [total EXCEPT ![c] = 0]
              /\ pc' = [pc EXCEPT ![c] = "loop"]
              /\ UNCHANGED result
    /\ UNCHANGED <<operation, fetchxml, sent, served, args, ret,
                   log_level, stdout, cache, now>>

\* apply_paging(&ensure_aggregate_page_size(fetchxml, AGGREGATE_PAGE_SIZE)?,
\*              page, paging_cookie.as_deref())
build_fetch_with_paging(query, page_no, cookie) ==
    Let(ensure_aggregate_page_size(query, AGGREGATE_PAGE_SIZE), LAMBDA capped :
        IF ~capped.ok THEN capped
        ELSE apply_paging(capped.val, page_no, cookie))

\* Send with the Debug level building the query it prints and sends without
\* the cursor
Send_debug_without_cursor(c) ==
    /\ pc[c] = "loop"
    /\ page[c] <= MaxPages
    /\ \E fetch_with_paging \in
            {build_fetch_with_paging(fetchxml[c], page[c],
                 IF log_level[c] = "Debug" THEN None ELSE paging_cookie[c])} :
         IF ~fetch_with_paging.ok
         THEN /\ Return(c, fetch_with_paging)
              /\ UNCHANGED <<sent, stdout>>
         ELSE /\ stdout' = IF log_level[c] = "Debug"
                            THEN [stdout EXCEPT ![c] =
                                     @ \o debug_lines_page(page[c], fetch_with_paging.val)]
                            ELSE stdout
              /\ sent' = [sent EXCEPT ![c] = Append(@, fetch_with_paging.val)]
              /\ pc' = [pc EXCEPT ![c] = "await"]
              /\ UNCHANGED result
    /\ UNCHANGED <<operation, fetchxml, page, paging_cookie, entities, total, served,
                   args, ret, log_level, cache, now>>

\* Top of the loop: build the page's query and send the request.
Send(c) ==
    /\ pc[c] = "loop"
    /\ page[c] <= MaxPages
    /\ \E fetch_with_paging \in
            {build_fetch_with_paging(fetchxml[c], page[c], paging_cookie[c])} :
         IF ~fetch_with_paging.ok
         THEN /\ Return(c, fetch_with_paging)
              /\ UNCHANGED <<sent, stdout>>
         ELSE /\ stdout' = IF log_level[c] = "Debug"
                            THEN [stdout EXCEPT ![c] =
                                     @ \o debug_lines_page(page[c], fetch_with_paging.val)]
                            ELSE stdout
              /\ sent' = [sent EXCEPT ![c] = Append(@, fetch_with_paging.val)]
              /\ pc' = [pc EXCEPT ![c] = "await"]
              /\ UNCHANGED result
    /\ UNCHANGED <<operation, fetchxml, page, paging_cookie, entities, total, served,
                   args, ret, log_level, cache, now>>

\* send().await?, the status check and resp.json().await? : the error the
\* response makes the call return, or Ok(json)
read_json(resp) ==
    IF resp.kind = "network_failure" THEN E_RequestFailed
    ELSE IF ~is_success(resp.status)
         THEN E_ApiError(resp.status, unwrap_or_default(resp.text))
    ELSE IF ~is_some(resp.json) THEN E_ParseJson
    ELSE Ok(resp.json[1])

\* number_rows starting again at 1 on every page (offset + 1)
number_rows_per_page(page_entities, start_index, offset) ==
    [i \in 1..Len(page_entities) |->
        insert(page_entities[i], ROW_NUMBER_ATTRIBUTE, Value_Int(i))]

RECURSIVE number_rows(_, _, _)
\* for (offset, entity) in page_entities.iter_mut().enumerate(): the first
\* `offset` rows are numbered already
number_rows(page_entities, start_index, offset) ==
    Let(page_entities, LAMBDA rows :
        IF offset >= Len(rows) THEN rows
        ELSE number_rows(
               [rows EXCEPT ![offset + 1] =
                   insert(@, ROW_NUMBER_ATTRIBUTE, Value_Int(start_index + offset + 1))],
               start_index, offset + 1))

\* One page of retrieve_multiple_fetchxml from the response to the end of
\* the iteration: the error returned, or the rows accumulated, whether more
\* records follow and the cursor for the next page.
rows_page(resp, entities_so_far) ==
    Let(read_json(resp), LAMBDA json :
    IF ~json.ok THEN json
    ELSE
    Let(parse_entities_from_response(json.val), LAMBDA page_entities :
    IF ~page_entities.ok THEN page_entities
    ELSE Ok([entities      |-> entities_so_far
                               \o number_rows(page_entities.val, Len(entities_so_far), 0),
             more_records  |-> parse_more_records(json.val),
             paging_cookie |-> extract_paging_cookie(json.val)])))

\* ReceiveRows with one `entities` for all calls (the rows accumulated by the
\* first call), as if the accumulator were a field of the client
ReceiveRows_shared_entities(c) ==
    /\ pc[c] = "await"
    /\ operation[c] = "rows"
    /\ \E i \in 1..Len(Responses) :
         /\ Answer(c, i)
         /\ \E got \in {rows_page(Responses[i], entities[1])} :
              IF ~got.ok
              THEN /\ Return(c, got)
                   /\ UNCHANGED <<page, paging_cookie, entities>>
              ELSE IF ~got.val.more_records
              THEN /\ entities' = [k \in Calls |-> got.val.entities]
                   /\ Return(c, Ok(got.val.entities))
                   /\ UNCHANGED <<page, paging_cookie>>
              ELSE /\ entities' = [k \in Calls |-> got.val.entities]
                   /\ paging_cookie' = [paging_cookie EXCEPT ![c] = got.val.paging_cookie]
                   /\ page' = [page EXCEPT ![c] = @ + 1]
                   /\ pc' = [pc EXCEPT ![c] = "loop"]
                   /\ UNCHANGED result
    /\ UNCHANGED <<operation, fetchxml, total, sent, args, ret,
                   log_level, stdout, cache, now>>

\* The rest of an iteration of retrieve_multiple_fetchxml, from the response
\* to the break or the next iteration.
ReceiveRows(c) ==
    /\ pc[c] = "await"
    /\ operation[c] = "rows"
    /\ \E i \in 1..Len(Responses) :
         /\ Answer(c, i)
         /\ \E got \in {rows_page(Responses[i], entities[c])} :
              IF ~got.ok
              THEN /\ Return(c, got)
                   /\ UNCHANGED <<page, paging_cookie, entities>>
              ELSE IF ~got.val.more_records
              THEN /\ entities' = [entities EXCEPT ![c] = got.val.entities]
                   /\ Return(c, Ok(got.val.entities))
                   /\ UNCHANGED <<page, paging_cookie>>
              ELSE /\ entities' = [entities EXCEPT ![c] = got.val.entities]
                   /\ paging_cookie' = [paging_cookie EXCEPT ![c] = got.val.paging_cookie]
                   /\ page' = [page EXCEPT ![c] = @ + 1]
                   /\ pc' = [pc EXCEPT ![c] = "loop"]
                   /\ UNCHANGED result
    /\ UNCHANGED <<operation, fetchxml, total, sent, args, ret,
                   log_level, stdout, cache, now>>

\* One page of retrieve_multiple_fetchxml_count, as rows_page.
count_page(resp, total_so_far) ==
    Let(read_json(resp), LAMBDA json :
    IF ~json.ok THEN json
    ELSE
    Let(parse_record_count_from_response(json.val), LAMBDA count :
    IF ~count.ok THEN count
    ELSE Ok([total         |-> total_so_far + count.val,
             more_records  |-> parse_more_records(json.val),
             paging_cookie |-> extract_paging_cookie(json.val)])))

\* The rest of an iteration of retrieve_multiple_fetchxml_count.
ReceiveCount(c) ==
    /\ pc[c] = "await"
    /\ operation[c] = "count"
    /\ \E i \in 1..Len(Responses) :
         /\ Answer(c, i)
         /\ \E got \in {count_page(Responses[i], total[c])} :
              IF ~got.ok
              THEN /\ Return(c, got)
                   /\ UNCHANGED <<page, paging_cookie, total>>
              ELSE IF ~got.val.more_records
              THEN /\ total' = [total EXCEPT ![c] = got.val.total]
                   /\ Return(c, Ok(got.val.total))
                   /\ UNCHANGED <<page, paging_cookie>>
              ELSE /\ total' = [total EXCEPT ![c] = got.val.total]
                   /\ paging_cookie' = [paging_cookie EXCEPT ![c] = got.val.paging_cookie]
                   /\ page' = [page EXCEPT ![c] = @ + 1]
                   /\ pc' = [pc EXCEPT ![c] = "loop"]
                   /\ UNCHANGED result
    /\ UNCHANGED <<operation, fetchxml, entities, sent, args, ret,
                   log_level, stdout, cache, now>>

\* SendSingle with the text put through ensure_aggregate_page_size first, as
\* the paging loop does
SendSingle_capped(c) ==
    /\ pc[c] = "single"
    /\ \E capped \in {ensure_aggregate_page_size(fetchxml[c], AGGREGATE_PAGE_SIZE)} :
         sent' = [sent EXCEPT ![c] = Append(@, IF capped.ok THEN capped.val ELSE fetchxml[c])]
    /\ pc' = [pc EXCEPT ![c] = "single_await"]
    /\ stdout' = IF log_level[c] = "Debug"
                  THEN [stdout EXCEPT ![c] = @ \o debug_lines_single(fetchxml[c])]
                  ELSE stdout
    /\ UNCHANGED <<operation, fetchxml, page, paging_cookie, entities, total, result, served,
                   args, ret, log_level, cache, now>>

\* retrieve_multiple_fetchxml_single: the request, sent with the caller's text
SendSingle(c) ==
    /\ pc[c] = "single"
    /\ sent' = [sent EXCEPT ![c] = Append(@, fetchxml[c])]
    /\ pc' = [pc EXCEPT ![c] = "single_await"]
    /\ stdout' = IF log_level[c] = "Debug"
                  THEN [stdout EXCEPT ![c] = @ \o debug_lines_single(fetchxml[c])]
                  ELSE stdout
    /\ UNCHANGED <<operation, fetchxml, page, paging_cookie, entities, total, result, served,
                   args, ret, log_level, cache, now>>

\* retrieve_multiple_fetchxml_single from the response to its return
single_page(resp) ==
    Let(read_json(resp), LAMBDA json :
        IF ~json.ok THEN json ELSE parse_entities_from_response(json.val))

\* retrieve_multiple_fetchxml_single from the response on, and what the caller
\* makes of it: the rows as they are, or their number
ReceiveSingle(c) ==
    /\ pc[c] = "single_await"
    /\ \E i \in 1..Len(Responses) :
         /\ Answer(c, i)
         /\ \E resp \in {single_page(Responses[i])} :
              IF ~resp.ok THEN Return(c, resp)
              ELSE IF operation[c] = "rows" THEN Return(c, resp)
              ELSE Return(c, Ok(Len(resp.val)))
    /\ UNCHANGED <<operation, fetchxml, page, paging_cookie, entities, total, sent,
                   args, ret,
                   log_level, stdout, cache, now>>

Step(c) ==
    \/ Start(c)
    \/ Send(c)
    \/ ReceiveRows(c)
    \/ ReceiveCount(c)
    \/ SendSingle(c)
    \/ ReceiveSingle(c)

Next == \E c \in Calls : Step(c)

Spec == Init /\ [][Next]_vars

\* Every request eventually completes and a call that can go on does: while
\* some call can take a step, a step is taken.
FairSpec == Spec /\ WF_vars(Next)

\* The calls made with a query of DriverQueries.
DriverInit ==
    /\ operation = [c \in Calls |-> IF c = 1 THEN "rows" ELSE "count"]
    /\ \E q \in DriverQueries : fetchxml = [c \in Calls |-> q]
    /\ pc = [c \in Calls |-> "start"]
    /\ page = [c \in Calls |-> 0]
    /\ paging_cookie = [c \in Calls |-> None]
    /\ entities = [c \in Calls |-> <<>>]
    /\ total = [c \in Calls |-> 0]
    /\ sent = [c \in Calls |-> <<>>]
    /\ result = [c \in Calls |-> None]
    /\ served = [r \in {} |-> 0]
    /\ args = NoArgs
    /\ ret = NotCalled
    /\ log_level = [c \in Calls |-> "Information"]
    /\ stdout = [c \in Calls |-> <<>>]
    /\ cache = NoTokens
    /\ now = 0

DriverSpec == DriverInit /\ [][Next]_vars

\* Two retrievals on one client, run concurrently: the pairs of queries they
\* are made with (the same query twice, a paged and a single-request one).
ConcurrentQueries == {<<Q_plain, Q_plain>>, <<Q_plain, Q_top>>, <<Q_top, Q_top>>}

\* Both retrieve rows, or the second one counts.
ConcurrentInit ==
    /\ operation \in {[c \in Calls |-> "rows"], [c \in Calls |-> IF c = 1 THEN "rows" ELSE "count"]}
    /\ \E q \in ConcurrentQueries : fetchxml = [c \in Calls |-> q[c]]
    /\ pc = [c \in Calls |-> "start"]
    /\ page = [c \in Calls |-> 0]
    /\ paging_cookie = [c \in Calls |-> None]
    /\ entities = [c \in Calls |-> <<>>]
    /\ total = [c \in Calls |-> 0]
    /\ sent = [c \in Calls |-> <<>>]
    /\ result = [c \in Calls |-> None]
    /\ served = [r \in {} |-> 0]
    /\ args = NoArgs
    /\ ret = NotCalled
    /\ log_level = [c \in Calls |-> "Information"]
    /\ stdout = [c \in Calls |-> <<>>]
    /\ cache = NoTokens
    /\ now = 0

ConcurrentSpec == ConcurrentInit /\ [][Next]_vars

\* The queries the two clients of LogInit are given.
LogQueries == {Q_plain, Q_top, Q_agg, Q_unclosed}

\* The same operation with the same query on two clients that differ in
\* their log level only: call 1 on ServiceClient::new(.., LogLevel::Debug),
\* call 2 on ServiceClient::new(.., LogLevel::Information).
LogInit ==
    /\ operation \in {[c \in Calls |-> "rows"], [c \in Calls |-> "count"]}
    /\ \E q \in LogQueries : fetchxml = [c \in Calls |-> q]
    /\ pc = [c \in Calls |-> "start"]
    /\ page = [c \in Calls |-> 0]
    /\ paging_cookie = [c \in Calls |-> None]
    /\ entities = [c \in Calls |-> <<>>]
    /\ total = [c \in Calls |-> 0]
    /\ sent = [c \in Calls |-> <<>>]
    /\ result = [c \in Calls |-> None]
    /\ served = [r \in {} |-> 0]
    /\ args = NoArgs
    /\ ret = NotCalled
    /\ log_level = [c \in Calls |-> IF c = 1 THEN "Debug" ELSE "Information"]
    /\ stdout = [c \in Calls |-> <<>>]
    /\ cache = NoTokens
    /\ now = 0

LogSpec == LogInit /\ [][Next]_vars

\* ------------------------------------------------------------------------
\* fetchxml.rs: the functions called on their own
\* ------------------------------------------------------------------------

\* AB
CURSOR_AB ==
    <<"A","B">>

\* a&<>"'b
CURSOR_SPECIAL ==
    <<"a","&","<",">","\"","'","b">>

\* <c page="2"/>
CURSOR_XML ==
    <<"<","c"," ","p","a","g","e","=","\"","2","\"","/",">">>

\* 7
VALUE_7 ==
    <<"7">>

\* x y
VALUE_TEXT ==
    <<"x"," ","y">>

\* Queries a fetchxml.rs function can be called with: the root tag with and
\* without the attribute asked for, in both quote characters, with attribute
\* names and values that contain another attribute's name, and without a
\* closed root tag.
MutatorQueries ==
    {Q_plain, Q_top, Q_agg, Q_foo, Q_unclosed, Q_badpage,
     Q_paged, Q_cookie_page, Q_top_agg, Q_top_spaced, Q_stop, Q_value_top, Q_child_top,
     Q_agg_single, Q_agg_count, Q_agg_rtrc, Q_agg_elsewhere, Q_homepage, Q_gt}

\* The attribute names the driver asks for and writes.
MutatorNames == {ATTR_TOP, ATTR_COUNT, ATTR_PAGE, ATTR_PAGING_COOKIE}

MutatorValues == {VALUE_7, VALUE_TEXT}

\* The cursors apply_paging can be given.
MutatorCookies ==
    {None, Some(CURSOR_AB), Some(CURSOR_SPECIAL), Some(CURSOR_XML)}

\* No retrieval runs while the functions are called on their own.
Idle ==
    /\ operation = [c \in Calls |-> IF c = 1 THEN "rows" ELSE "count"]
    /\ fetchxml = [c \in Calls |-> Q_plain]
    /\ pc = [c \in Calls |-> "start"]
    /\ page = [c \in Calls |-> 0]
    /\ paging_cookie = [c \in Calls |-> None]
    /\ entities = [c \in Calls |-> <<>>]
    /\ total = [c \in Calls |-> 0]
    /\ sent = [c \in Calls |-> <<>>]
    /\ result = [c \in Calls |-> None]
    /\ served = [r \in {} |-> 0]
    /\ log_level = [c \in Calls |-> "Information"]
    /\ stdout = [c \in Calls |-> <<>>]

MutatorInit ==
    /\ Idle
    /\ cache = NoTokens
    /\ now = 0
    /\ args \in [fetchxml : MutatorQueries, name : MutatorNames, value : MutatorValues,
                 page : 1..MaxPages, paging_cookie : MutatorCookies]
    /\ ret = NotCalled

\* The state of the retrievals, which a function called on its own leaves alone.
driver_vars ==
    <<operation, fetchxml, pc, page, paging_cookie, entities, total, sent, result, served,
      log_level, stdout>>

\* The token cache and the clock, which these functions do not touch either.
token_vars == <<cache, now>>

Call_fetch_tag_has_attr ==
    /\ ret = NotCalled
    /\ ret' = [fn  |-> "fetch_tag_has_attr",
               val |-> fetch_tag_has_attr(args.fetchxml, args.name)]
    /\ UNCHANGED <<driver_vars, token_vars, args>>

Call_upsert_fetch_attr ==
    /\ ret = NotCalled
    /\ ret' = [fn  |-> "upsert_fetch_attr",
               val |-> upsert_fetch_attr(args.fetchxml, args.name, args.value)]
    /\ UNCHANGED <<driver_vars, token_vars, args>>

Call_apply_paging ==
    /\ ret = NotCalled
    /\ ret' = [fn  |-> "apply_paging",
               val |-> apply_paging(args.fetchxml, args.page, args.paging_cookie)]
    /\ UNCHANGED <<driver_vars, token_vars, args>>

Call_ensure_aggregate_page_size ==
    /\ ret = NotCalled
    /\ ret' = [fn  |-> "ensure_aggregate_page_size",
               val |-> ensure_aggregate_page_size(args.fetchxml, AGGREGATE_PAGE_SIZE)]
    /\ UNCHANGED <<driver_vars, token_vars, args>>

MutatorNext ==
    \/ Call_fetch_tag_has_attr
    \/ Call_upsert_fetch_attr
    \/ Call_apply_paging
    \/ Call_ensure_aggregate_page_size

MutatorSpec == MutatorInit /\ [][MutatorNext]_vars

\* ------------------------------------------------------------------------
\* parse.rs: the functions called on their own
\* ------------------------------------------------------------------------

\* Values a morerecords annotation can have: None for no annotation, the
\* booleans, strings that spell true in some case and strings that do not,
\* and the other kinds of JSON value.
MoreRecordsValues ==
    << None, Some(JBool(TRUE)), Some(JBool(FALSE)), Some(JNull),
       Some(JNumber("PosInt", 1)), Some(JNumber("PosInt", 0)), Some(JNumber("NegInt", -1)),
       Some(JArray(<<>>)), Some(JArray(<<JBool(TRUE)>>)),
       Some(JObject(EmptyMap)), Some(JObject([k \in {"true"} |-> JBool(TRUE)])),
       Some(JString(<<"t","r","u","e">>)), Some(JString(<<"T","R","U","E">>)),
       Some(JString(<<"T","r","u","e">>)), Some(JString(<<"t","R","u","E">>)),
       Some(JString(<<"f","a","l","s","e">>)), Some(JString(<<"n","o">>)),
       Some(JString(<<>>)), Some(JString(<<"t","r","u","e"," ">>)),
       Some(JString(<<" ","t","r","u","e">>)), Some(JString(<<"t","r","u">>)),
       Some(JString(<<"1">>)), Some(JString(<<"y","e","s">>)) >>

\* Payloads that are no object.
OtherPayloads ==
    << JArray(<<JBool(TRUE)>>), JBool(TRUE), JString(<<"t","r","u","e">>), JNull >>

\* Values a fetchxmlpagingcookie annotation can have: None for no annotation,
\* strings with the fragment (plain, encoded once and twice, empty, given
\* twice), strings whose fragment does not decode, strings without the
\* fragment or without its closing quote, and the other kinds of JSON value.
CookieValues ==
    << None, Some(JString(COOKIE_AB)), Some(JString(COOKIE_AMP)),
       Some(JString(COOKIE_UNDECODABLE)), Some(JString(COOKIE_NOFRAGMENT)),
       Some(JNull), Some(JNumber("PosInt", 1)), Some(JBool(TRUE)),
       Some(JArray(<<JString(COOKIE_AB)>>)),
       Some(JObject([k \in {"pagingcookie"} |-> JString(CURSOR_AB)])),
       Some(JString(COOKIE_UNCLOSED)), Some(JString(COOKIE_EMPTY)),
       Some(JString(COOKIE_TWICE_UNDECODABLE)), Some(JString(COOKIE_ONCE)),
       Some(JString(COOKIE_TWO)), Some(JString(COOKIE_SINGLE_QUOTED)) >>

\* The `value` arrays a page can have: empty, rows of scalars, rows with
\* arrays and objects, and an element that is no object.
RowLists ==
    << <<>>, <<Row_a, Row_b>>, <<Row_c>>, <<Row_numbers>>, <<Row_mixed, Row_numbers>>,
       <<Row_a, JString(<<"x">>)>> >>

\* The decoder is given a payload: a page with or without rows and with one
\* of the values of each annotation, or a payload that is no object.
DecoderInit ==
    /\ Idle
    /\ cache = NoTokens
    /\ now = 0
    /\ \/ \E rows \in 1..Len(RowLists) :
          \E more \in 1..Len(MoreRecordsValues) :
          \E cookie \in 1..Len(CookieValues) :
             args = [json |-> Page(RowLists[rows], MoreRecordsValues[more],
                                   CookieValues[cookie])]
       \/ \E other \in 1..Len(OtherPayloads) : args = [json |-> OtherPayloads[other]]
    /\ ret = NotCalled

Call_parse_more_records ==
    /\ ret = NotCalled
    /\ ret' = [fn |-> "parse_more_records", val |-> parse_more_records(args.json)]
    /\ UNCHANGED <<driver_vars, token_vars, args>>

Call_extract_paging_cookie ==
    /\ ret = NotCalled
    /\ ret' = [fn |-> "extract_paging_cookie", val |-> extract_paging_cookie(args.json)]
    /\ UNCHANGED <<driver_vars, token_vars, args>>

Call_parse_entities_from_response ==
    /\ ret = NotCalled
    /\ ret' = [fn  |-> "parse_entities_from_response",
               val |-> parse_entities_from_response(args.json)]
    /\ UNCHANGED <<driver_vars, token_vars, args>>

DecoderNext ==
    \/ Call_parse_more_records
    \/ Call_extract_paging_cookie
    \/ Call_parse_entities_from_response

DecoderSpec == DecoderInit /\ [][DecoderNext]_vars

\* ------------------------------------------------------------------------
\* auth/token.rs and auth/credentials.rs: the token cache
\* ------------------------------------------------------------------------

REFRESH_SKEW_SECS == 300

\* todo!(..): the call does not return
Panic(msg) == [ok |-> FALSE, panic |-> msg]

\* str::trim().is_empty()
trim_is_empty(s) == \A i \in 1..Len(s) : s[i] \in {" ", "\t", "\n", "\r"}

\* now_secs() is the clock's reading
is_expiring_soon(expires_at, now_secs) ==
    IF ~is_some(expires_at) THEN TRUE
    ELSE now_secs + REFRESH_SKEW_SECS >= expires_at[1]

\* What the token endpoint can answer: no answer, a refusal, a body that is
\* not JSON, JSON without one of the two fields or with a field of another
\* type, a blank token, and tokens that expire in 300, 301 and 302 seconds.
TokenResponses ==
    << NetworkFailure,
       HttpError(401, Some(<<"d","e","n","i","e","d">>)),
       HttpJson(None),
       HttpJson(Some(JObject([k \in {"expires_in"} |-> JNumber("PosInt", 302)]))),
       HttpJson(Some(JObject([k \in {"access_token"} |-> JString(<<"t","A">>)]))),
       HttpJson(Some(JObject([k \in {"access_token", "expires_in"} |->
           IF k = "access_token" THEN JNumber("PosInt", 7) ELSE JNumber("PosInt", 302)]))),
       HttpJson(Some(JObject([k \in {"access_token", "expires_in"} |->
           IF k = "access_token" THEN JString(<<"t","A">>) ELSE JNumber("NegInt", -1)]))),
       HttpJson(Some(JObject([k \in {"access_token", "expires_in"} |->
           IF k = "access_token" THEN JString(<<" ">>) ELSE JNumber("PosInt", 302)]))),
       HttpJson(Some(JObject([k \in {"access_token", "expires_in"} |->
           IF k = "access_token" THEN JString(<<"t","A">>) ELSE JNumber("PosInt", 302)]))),
       HttpJson(Some(JObject([k \in {"access_token", "expires_in"} |->
           IF k = "access_token" THEN JString(<<"t","B">>) ELSE JNumber("PosInt", 301)]))),
       HttpJson(Some(JObject([k \in {"access_token", "expires_in"} |->
           IF k = "access_token" THEN JString(<<"t","B">>) ELSE JNumber("PosInt", 300)]))) >>

\* credentials.rs: the token request from its response on; the error is the
\* text it is returned with
fetch_client_credentials_token_with_expiry(resp, now_secs) ==
    IF resp.kind = "network_failure" THEN Err("token", "send failed")
    ELSE IF ~is_success(resp.status) THEN Err("token", unwrap_or_default(resp.text))
    ELSE IF ~is_some(resp.json) THEN Err("token", "not json")
    ELSE
    Let(json_get(resp.json[1], "access_token"), LAMBDA access_token :
    IF ~is_some(access_token) \/ access_token[1].t # "string"
    THEN Err("token", "No access_token in response")
    ELSE
    Let(json_get(resp.json[1], "expires_in"), LAMBDA expires_in :
    IF ~is_some(expires_in) \/ ~is_u64(expires_in[1])
    THEN Err("token", "No expires_in in response")
    ELSE IF trim_is_empty(access_token[1].v) THEN Err("token", "Access token was empty")
    ELSE Ok([access_token |-> access_token[1].v,
             expires_at   |-> now_secs + expires_in[1].v])))

\* fetch_token: auth is the variant of AuthConfig
fetch_token(auth, resp, now_secs) ==
    IF auth = "ClientCredentials"
    THEN Let(fetch_client_credentials_token_with_expiry(resp, now_secs), LAMBDA token :
             IF ~token.ok THEN token
             ELSE Ok([access_token |-> token.val.access_token,
                      expires_at   |-> Some(token.val.expires_at)]))
    ELSE Panic("not yet implemented: #11")

\* cache.insert(key, token)
cache_insert(map, key, token) ==
    [k \in DOMAIN map \cup {key} |-> IF k = key THEN token ELSE map[k]]

\* get_access_token: what it returns, the cache it leaves, and the number of
\* token requests it made; resp is the answer a token request gets
get_access_token(auth, map, key, resp, now_secs) ==
    IF /\ key \in DOMAIN map
       /\ ~trim_is_empty(map[key].access_token)
       /\ ~is_expiring_soon(map[key].expires_at, now_secs)
    THEN [val |-> Ok(map[key].access_token), cache |-> map, requests |-> 0]
    ELSE
    Let(fetch_token(auth, resp, now_secs), LAMBDA refreshed :
        IF ~refreshed.ok
        THEN [val |-> refreshed, cache |-> map,
              requests |-> IF auth = "ClientCredentials" THEN 1 ELSE 0]
        ELSE [val |-> Ok(refreshed.val.access_token),
              cache |-> cache_insert(map, key, refreshed.val),
              requests |-> 1])

\* The variants of AuthConfig.
AuthConfigs == {"ClientCredentials", "AuthorizationCode"}

TokenKeys == {"k1", "k2"}

\* The tokens a caller's cache can hold at the start: a good token, a blank
\* one, one whose expiry is unknown, and one 300 seconds from expiry.
CachedTokens ==
    { [access_token |-> <<"t","0">>, expires_at |-> Some(302)],
      [access_token |-> <<" ">>,     expires_at |-> Some(302)],
      [access_token |-> <<"t","0">>, expires_at |-> None],
      [access_token |-> <<"t","0">>, expires_at |-> Some(300)] }

\* A cache the caller made, with a token for some of the keys.
TokenInit ==
    /\ Idle
    /\ args = NoArgs
    /\ ret = NotCalled
    /\ now = 0
    /\ \E keys \in SUBSET TokenKeys : cache \in [keys -> CachedTokens]

\* A call of get_access_token on the cache, and its return.
Call_get_access_token ==
    /\ \E auth \in AuthConfigs, key \in TokenKeys, i \in 1..Len(TokenResponses) :
         \E got \in {get_access_token(auth, cache, key, TokenResponses[i], now)} :
            /\ cache' = got.cache
            /\ ret' = [fn |-> "get_access_token", auth |-> auth, key |-> key,
                       val |-> got.val, requests |-> got.requests]
    /\ UNCHANGED <<driver_vars, args, now>>

\* A second passes.
Tick ==
    /\ now < MaxNow
    /\ now' = now + 1
    /\ UNCHANGED <<driver_vars, args, ret, cache>>

TokenNext ==
    \/ Call_get_access_token
    \/ Tick

TokenSpec == TokenInit /\ [][TokenNext]_vars

\* ------------------------------------------------------------------------
\* Vocabulary of the properties
\* ------------------------------------------------------------------------

Done(c) == pc[c] = "done"

Res(c) == result[c][1]

\* The call runs the paging loop (it passed the top check without a top).
Paged(c) == page[c] >= 1

\* Number of requests of call c whose answer the call has dealt with.
Handled(c) ==
    IF pc[c] \in {"await", "single_await"} THEN Len(sent[c]) - 1 ELSE Len(sent[c])

\* The answer to the n-th request of call c.
Resp(c, n) == Responses[served[sent[c][n]]]

\* The answer is a page: status 200 with a JSON body.
IsJson(r) == r.kind = "http" /\ is_success(r.status) /\ is_some(r.json)

\* The request failed at network level or got a non-success status.
IsTransportFailure(r) ==
    r.kind = "network_failure" \/ (r.kind = "http" /\ ~is_success(r.status))

\* The payload is not an object with a `value` array of objects.
Malformed(json) ==
    \/ json.t # "object"
    \/ "value" \notin DOMAIN json.v
    \/ json.v["value"].t # "array"
    \/ \E k \in 1..Len(json.v["value"].v) : json.v["value"].v[k].t # "object"

\* The answer is a page retrieve_rows can decode.
GoodPage(r) == IsJson(r) /\ ~Malformed(r.json[1])

\* The morerecords annotation says true.
AnnouncesMore(json) ==
    /\ json.t = "object"
    /\ MORERECORDS \in DOMAIN json.v
    /\ \/ json.v[MORERECORDS].t = "bool" /\ json.v[MORERECORDS].v
       \/ /\ json.v[MORERECORDS].t = "string"
          /\ json.v[MORERECORDS].v \in
               {<<x1, x2, x3, x4>> : x1 \in {"t", "T"}, x2 \in {"r", "R"},
                                     x3 \in {"u", "U"}, x4 \in {"e", "E"}}

\* ------------------------------------------------------------------------
\* Vocabulary of the properties: the root tag read as XML
\* ------------------------------------------------------------------------

IsSpace(ch) == ch \in {" ", "\t", "\n", "\r"}

\* First position from i on (one-based) that holds no white space.
SkipSpace(s, i) ==
    SetMin({j \in i..(Len(s) + 1) : j = Len(s) + 1 \/ ~IsSpace(s[j])})

\* First position from i on that ends an attribute name.
NameEnd(s, i) ==
    SetMin({j \in i..(Len(s) + 1) :
               j = Len(s) + 1 \/ IsSpace(s[j]) \/ s[j] \in {"=", ">", "/", "\"", "'"}})

RECURSIVE ReadAttrs(_, _)
\* The attributes of a start tag, read from position i (after the tag's name)
\* to the tag's closing '>': ok says the tag is well formed, attrs are the
\* attributes in order with the quote character of each and the positions of
\* its value, close is the position of the '>'.
ReadAttrs(s, i) ==
    Let(SkipSpace(s, i), LAMBDA j :
    IF j > Len(s) THEN [ok |-> FALSE, attrs |-> <<>>, close |-> 0]
    ELSE IF s[j] = ">" THEN [ok |-> TRUE, attrs |-> <<>>, close |-> j]
    ELSE IF s[j] = "/"
         THEN [ok |-> j < Len(s) /\ s[j + 1] = ">", attrs |-> <<>>, close |-> j + 1]
    ELSE
    Let(NameEnd(s, j), LAMBDA k :
    Let(SkipSpace(s, k), LAMBDA e :
    IF k = j \/ e > Len(s) \/ s[e] # "=" THEN [ok |-> FALSE, attrs |-> <<>>, close |-> 0]
    ELSE
    Let(SkipSpace(s, e + 1), LAMBDA v :
    IF v > Len(s) \/ s[v] \notin {"\"", "'"} THEN [ok |-> FALSE, attrs |-> <<>>, close |-> 0]
    ELSE
    Let({c \in (v + 1)..Len(s) : s[c] = s[v]}, LAMBDA closing :
    IF closing = {} THEN [ok |-> FALSE, attrs |-> <<>>, close |-> 0]
    ELSE
    Let(ReadAttrs(s, SetMin(closing) + 1), LAMBDA rest :
        [ok    |-> rest.ok,
         attrs |-> << [name  |-> SubSeq(s, j, k - 1),
                       value |-> SubSeq(s, v + 1, SetMin(closing) - 1),
                       quote |-> s[v],
                       from  |-> v + 1,
                       to    |-> SetMin(closing) - 1] >> \o rest.attrs,
         close |-> rest.close]))))))

\* The root tag of a query: the <fetch start tag the text begins with.
RootTag(text) ==
    IF Len(text) > Len(FETCH_OPEN) /\ SubSeq(text, 1, Len(FETCH_OPEN)) = FETCH_OPEN
       /\ (IsSpace(text[Len(FETCH_OPEN) + 1]) \/ text[Len(FETCH_OPEN) + 1] \in {">", "/"})
    THEN ReadAttrs(text, Len(FETCH_OPEN) + 1)
    ELSE [ok |-> FALSE, attrs |-> <<>>, close |-> 0]

\* The query has a well-formed, closed root tag without a repeated attribute.
ValidQuery(text) ==
    Let(RootTag(text), LAMBDA tag :
        /\ tag.ok
        /\ \A m, n \in 1..Len(tag.attrs) : m # n => tag.attrs[m].name # tag.attrs[n].name)

\* The values the root tag gives the attribute, in order (one if it is there).
AttrValues(text, name) ==
    Let(RootTag(text), LAMBDA tag :
        SelectSeq([n \in 1..Len(tag.attrs) |->
                      IF tag.attrs[n].name = name THEN Some(tag.attrs[n]) ELSE None],
                  is_some))

\* The same without the positions: the values only.
Values(text, name) ==
    Let(AttrValues(text, name), LAMBDA found : [n \in 1..Len(found) |-> found[n][1].value])

HasAttr(text, name) == AttrValues(text, name) # <<>>

\* The attribute's value and quote character; the attribute must be there.
AttrOf(text, name) == AttrValues(text, name)[1][1]

\* aggregate
NAME_AGGREGATE ==
    <<"a","g","g","r","e","g","a","t","e">>

\* true
TEXT_TRUE ==
    <<"t","r","u","e">>

\* The root tag marks the query as aggregate: aggregate="true" or 'true'.
IsAggregate(text) == Values(text, NAME_AGGREGATE) = <<TEXT_TRUE>>

\* ------------------------------------------------------------------------
\* Properties
\* ------------------------------------------------------------------------

\* C1: for a query without a top attribute, retrieve_rows and retrieve_count
\* against the same server return Ok together, and then the number of rows
\* is the count.
C1_RowsAndCountAgree ==
    (fetchxml[1] \notin TopQueries /\ Done(1) /\ Done(2)) =>
        /\ Res(1).ok <=> Res(2).ok
        /\ Res(1).ok => Len(Res(1).val) = Res(2).val

\* C2: in a successful paged retrieve_rows the i-th row returned has
\* __rownum = Int(i), whatever the pages were.
C2_RowNumbers ==
    \A c \in Calls :
        (operation[c] = "rows" /\ Paged(c)) =>
            /\ \A i \in 1..Len(entities[c]) :
                 /\ ROW_NUMBER_ATTRIBUTE \in DOMAIN entities[c][i]
                 /\ entities[c][i][ROW_NUMBER_ATTRIBUTE] = Value_Int(i)
            /\ (Done(c) /\ Res(c).ok) =>
                 \A i \in 1..Len(Res(c).val) :
                    /\ ROW_NUMBER_ATTRIBUTE \in DOMAIN Res(c).val[i]
                    /\ Res(c).val[i][ROW_NUMBER_ATTRIBUTE] = Value_Int(i)

\* C2 witness: a retrieval over three pages, the second one empty and the
\* first one with a row that came with its own __rownum, returned four rows.
C2_Witness ==
    /\ Done(1) /\ Res(1).ok /\ Paged(1)
    /\ Len(sent[1]) = 3
    /\ served[sent[1][1]] = 1
    /\ served[sent[1][2]] = 2
    /\ Len(Res(1).val) = 4

C4_NoCursorIsError ==
    \A c \in Calls : \A n \in 1..Handled(c) :
        ( /\ Paged(c)
          /\ IsJson(Resp(c, n))
          /\ operation[c] = "rows" => ~Malformed(Resp(c, n).json[1])
          /\ operation[c] = "count" => parse_record_count_from_response(Resp(c, n).json[1]).ok
          /\ AnnouncesMore(Resp(c, n).json[1])
          /\ ~is_some(extract_paging_cookie(Resp(c, n).json[1])) )
        => (Done(c) /\ ~Res(c).ok /\ Len(sent[c]) = n)

\* C5: a paged retrieval returns as soon as a page without more records is
\* decoded, with the accumulated result and after as many requests as that
\* page's index; and every call eventually returns.
C5_Terminates ==
    /\ <>(\A c \in Calls : Done(c))
    /\ [](\A c \in Calls :
            /\ \A n \in 1..Handled(c) :
                 ( /\ Paged(c)
                   /\ IF operation[c] = "rows" THEN GoodPage(Resp(c, n))
                      ELSE /\ IsJson(Resp(c, n))
                           /\ parse_record_count_from_response(Resp(c, n).json[1]).ok
                   /\ ~AnnouncesMore(Resp(c, n).json[1]) )
                 => /\ Done(c) /\ Res(c).ok
                    /\ Len(sent[c]) = n
                    /\ page[c] = n
                    /\ Res(c).val = IF operation[c] = "rows" THEN entities[c] ELSE total[c]
            /\ Paged(c) => Len(sent[c]) <= page[c])

\* C5 witness: both operations returned Ok at the third page.
C5_Witness ==
    /\ Paged(1) /\ Paged(2)
    /\ Done(1) /\ Res(1).ok /\ Len(sent[1]) = 3
    /\ Done(2) /\ Res(2).ok /\ Len(sent[2]) = 3

\* C6: a call that ends in a query syntax error has sent no request.
C6_SyntaxErrorBeforeRequest ==
    \A c \in Calls :
        (Done(c) /\ ~Res(c).ok /\ Res(c).err.class = "syntax") => Len(sent[c]) = 0

\* C7: a page whose payload has not the expected shape makes retrieve_rows
\* return a malformed-response error; no request follows that page.
C7_MalformedStops ==
    \A c \in Calls : \A n \in 1..Handled(c) :
        ( /\ operation[c] = "rows"
          /\ IsJson(Resp(c, n))
          /\ Malformed(Resp(c, n).json[1]) )
        => /\ Done(c)
           /\ ~Res(c).ok
           /\ Res(c).err.class = "malformed"
           /\ Len(sent[c]) = n

\* C7 witness: retrieve_rows got {"notvalue": []} with morerecords = true in
\* answer to its first request and returned.
C7_Witness ==
    /\ operation[1] = "rows" /\ Paged(1)
    /\ Handled(1) = 1
    /\ IsJson(Resp(1, 1))
    /\ "notvalue" \in DOMAIN Resp(1, 1).json[1].v
    /\ AnnouncesMore(Resp(1, 1).json[1])
    /\ Done(1)

C9_SameErrors ==
    (Done(1) /\ Done(2)) =>
        /\ ~Res(1).ok <=> ~Res(2).ok
        /\ ~Res(1).ok =>
             /\ Res(1).err.class = Res(2).err.class
             /\ Len(sent[1]) = Len(sent[2])

\* C10: a request that fails at network level or gets a non-success status
\* makes the call return a transport error, with the status and the body of
\* the response when there is one; no request follows it and no request is
\* sent twice.
C10_TransportNoRetry ==
    \A c \in Calls :
        /\ \A n \in 1..Handled(c) :
             IsTransportFailure(Resp(c, n)) =>
                /\ Done(c) /\ ~Res(c).ok
                /\ Res(c).err.class = "transport"
                /\ Len(sent[c]) = n
                /\ Resp(c, n).kind = "http" =>
                     /\ Res(c).err.status = Resp(c, n).status
                     /\ is_some(Resp(c, n).text) => Res(c).err.body = Resp(c, n).text[1]
        /\ \A m, n \in 1..Len(sent[c]) : m # n => sent[c][m] # sent[c][n]
        /\ Len(sent[c]) <= (IF Paged(c) THEN page[c] ELSE 1)

\* C10 witness: a call got status 500 with a body on its second page and
\* returned.
C10_Witness ==
    \E c \in Calls :
        /\ Done(c) /\ ~Res(c).ok
        /\ Len(sent[c]) = 2
        /\ Resp(c, 2).kind = "http"
        /\ Resp(c, 2).status = 500
        /\ Res(c).err.body = BODY_BOOM

\* C11: in a paged retrieval a request is sent only when every earlier one
\* has been answered, the n-th request has the page attribute n, the first
\* one has no paging-cookie but the caller's, and a later one carries the
\* cursor extracted from the answer to the request before it.
C11_OrderedRequests ==
    /\ [](\A c \in Calls : Paged(c) =>
            \A n \in 1..Len(sent[c]) :
                /\ Values(sent[c][n], ATTR_PAGE) = <<to_string(n)>>
                /\ n < Len(sent[c]) => sent[c][n] \in DOMAIN served
                /\ n = 1 => Values(sent[c][n], ATTR_PAGING_COOKIE)
                               = Values(fetchxml[c], ATTR_PAGING_COOKIE)
                /\ n > 1 =>
                     \E cursor \in {extract_paging_cookie(Resp(c, n - 1).json[1])} :
                        Values(sent[c][n], ATTR_PAGING_COOKIE) =
                            IF is_some(cursor) THEN <<escape_xml_attribute(cursor[1])>>
                            ELSE Values(fetchxml[c], ATTR_PAGING_COOKIE))
    /\ [][\A c \in Calls :
            sent'[c] # sent[c] =>
                /\ \A n \in 1..Len(sent[c]) : sent[c][n] \in DOMAIN served
                /\ Len(sent'[c]) = Len(sent[c]) + 1
                /\ SubSeq(sent'[c], 1, Len(sent[c])) = sent[c]]_vars

\* The call decoded the answer to its n-th request as a page.
Decoded(c, n) ==
    /\ IsJson(Resp(c, n))
    /\ IF operation[c] = "rows" THEN ~Malformed(Resp(c, n).json[1])
       ELSE parse_record_count_from_response(Resp(c, n).json[1]).ok

\* C12: in a paged retrieval, after a page n that announces more records and
\* has no cursor to extract, the driver's cursor is absent and its page is
\* n + 1, and request n + 1 has the page attribute n + 1 and no paging-cookie
\* attribute on the root tag.
C12_AbsentCursorNextRequest ==
    \A c \in Calls : \A n \in 1..Handled(c) :
        ( /\ Paged(c)
          /\ Decoded(c, n)
          /\ AnnouncesMore(Resp(c, n).json[1])
          /\ ~is_some(extract_paging_cookie(Resp(c, n).json[1])) )
        => /\ (Handled(c) = n /\ ~Done(c)) =>
                 (paging_cookie[c] = None /\ page[c] = n + 1)
           /\ Len(sent[c]) > n =>
                 /\ Values(sent[c][n + 1], ATTR_PAGE) = <<to_string(n + 1)>>
                 /\ ~HasAttr(sent[c][n + 1], ATTR_PAGING_COOKIE)

\* A function of fetchxml.rs was called and returned r.
Returned(fn) == ret.fn = fn

\* C13: fetch_tag_has_attr(query, name) is Ok(true) exactly when the root tag
\* of a well-formed query has an attribute of that name; with the name top
\* this is the driver's choice of the single request.
C13_HasAttrExact ==
    (Returned("fetch_tag_has_attr") /\ ValidQuery(args.fetchxml)) =>
        ret.val = Ok(HasAttr(args.fetchxml, args.name))

ValueReplaced(text, name, value) ==
    SubSeq(text, 1, AttrOf(text, name).from - 1) \o value
        \o SubSeq(text, AttrOf(text, name).to + 1, Len(text))

\* The text with name="value" inserted before the root tag's closing '>'.
AttrInserted(text, name, value) ==
    SubSeq(text, 1, RootTag(text).close - 1)
        \o <<" ">> \o name \o <<"=", "\"">> \o value \o <<"\"">>
        \o SubSeq(text, RootTag(text).close, Len(text))

\* C15: for a query with a well-formed root tag, upsert_fetch_attr returns
\* the text whose root tag has the attribute with the value given: replaced
\* in place within its quotes when the root tag had the attribute, inserted
\* as name="value" before the closing '>' otherwise; every other attribute of
\* the root tag keeps its value.
C15_UpsertSetsAttribute ==
    (Returned("upsert_fetch_attr") /\ ValidQuery(args.fetchxml)) =>
        /\ ret.val.ok
        /\ ret.val.val =
              IF HasAttr(args.fetchxml, args.name)
              THEN ValueReplaced(args.fetchxml, args.name, args.value)
              ELSE AttrInserted(args.fetchxml, args.name, args.value)
        /\ Values(ret.val.val, args.name) = <<args.value>>
        /\ HasAttr(args.fetchxml, args.name) =>
              AttrOf(ret.val.val, args.name).quote = AttrOf(args.fetchxml, args.name).quote
        /\ \A n \in 1..Len(RootTag(args.fetchxml).attrs) :
              \E other \in {RootTag(args.fetchxml).attrs[n].name} :
                 other # args.name =>
                    Values(ret.val.val, other) = Values(args.fetchxml, other)

\* C16: for a query with a well-formed root tag, apply_paging applied again
\* with the same page and cursor to its own result returns that result, whose
\* root tag has the page attribute once and the paging-cookie attribute at
\* most once.
C16_ApplyPagingIdempotent ==
    (Returned("apply_paging") /\ ValidQuery(args.fetchxml)) =>
        /\ ret.val.ok
        /\ apply_paging(ret.val.val, args.page, args.paging_cookie) = ret.val
        /\ Len(Values(ret.val.val, ATTR_PAGE)) = 1
        /\ Len(Values(ret.val.val, ATTR_PAGING_COOKIE)) <= 1

\* The XML entity of a character, or the character.
Entity(ch) ==
    CASE ch = "&" -> AMP
      [] ch = "<" -> LT
      [] ch = ">" -> GT
      [] ch = "\"" -> QUOT
      [] ch = "'" -> APOS
      [] OTHER -> <<ch>>

RECURSIVE Escaped(_)
\* The text with each of & < > " ' written as its entity.
Escaped(text) ==
    IF text = <<>> THEN <<>> ELSE Entity(Head(text)) \o Escaped(Tail(text))

NeedsEscape(text) == \E i \in 1..Len(text) : text[i] \in {"&", "<", ">", "\"", "'"}

\* The cursor extract_paging_cookie reads from a response whose cookie element
\* is <cookie pagingcookie="..."/> with the embedded value between the quotes.
ReExtracted(embedded) ==
    extract_paging_cookie(
        Page(<<>>, Some(JBool(TRUE)),
             Some(JString(<<"<", "c", "o", "o", "k", "i", "e", " ">> \o COOKIE_KEY
                          \o embedded \o <<"\"", "/", ">">>))))

\* apply_paging returned a text whose root tag carries the cursor given.
Embedded ==
    /\ Returned("apply_paging")
    /\ is_some(args.paging_cookie)
    /\ ret.val.ok
    /\ Len(Values(ret.val.val, ATTR_PAGING_COOKIE)) = 1

C18_AggregateCapOnEveryPage ==
    \A c \in Calls :
        (Paged(c) /\ IsAggregate(fetchxml[c]) /\ ~HasAttr(fetchxml[c], ATTR_COUNT)) =>
            \A n \in 1..Len(sent[c]) :
                Values(sent[c][n], ATTR_COUNT) = <<to_string(AGGREGATE_PAGE_SIZE)>>

\* C19: ensure_aggregate_page_size returns the text as it is when the root
\* tag does not mark the query aggregate, wherever else aggregate="true"
\* stands in the text, and when the root tag has a count attribute.
C19_CapLeavesOthersAlone ==
    ( /\ Returned("ensure_aggregate_page_size")
      /\ ValidQuery(args.fetchxml)
      /\ ~IsAggregate(args.fetchxml) \/ HasAttr(args.fetchxml, ATTR_COUNT) )
    => ret.val = Ok(args.fetchxml)

\* C20: parse_more_records is true exactly when the payload is an object
\* whose morerecords annotation is the boolean true or a string that spells
\* true in some mix of upper and lower case; it is false without the
\* annotation and for false, any other string, a number, null, an array and
\* an object.
C20_MoreRecordsFlag ==
    Returned("parse_more_records") =>
        /\ ret.val = AnnouncesMore(args.json)
        /\ ret.val =>
              \E a \in {json_get(args.json, MORERECORDS)} :
                 /\ is_some(a)
                 /\ a[1].t \in {"bool", "string"}
        /\ \A a \in {json_get(args.json, MORERECORDS)} :
              (~is_some(a) \/ a[1].t \in {"null", "number", "array", "object"}) => ~ret.val

\* C20 witness: the flag was computed for a page whose annotation is the
\* string tRuE, and is true.
C20_Witness ==
    /\ Returned("parse_more_records")
    /\ args.json.t = "object"
    /\ MORERECORDS \in DOMAIN args.json.v
    /\ args.json.v[MORERECORDS].t = "string"
    /\ args.json.v[MORERECORDS].v = <<"t","R","u","E">>
    /\ ret.val

\* The fetchxmlpagingcookie annotation of a payload when it is a string, as
\* an Option.
CookieAnnotation(json) ==
    IF json.t = "object" /\ FETCHXMLPAGINGCOOKIE \in DOMAIN json.v
       /\ json.v[FETCHXMLPAGINGCOOKIE].t = "string"
    THEN Some(json.v[FETCHXMLPAGINGCOOKIE].v)
    ELSE None

\* The value of the first pagingcookie="..." fragment of a text: what stands
\* between the first pagingcookie=" and the next double quote, as an Option.
Fragment(text) ==
    Let({p \in 1..Len(text) :
            /\ p + Len(COOKIE_KEY) - 1 <= Len(text)
            /\ SubSeq(text, p, p + Len(COOKIE_KEY) - 1) = COOKIE_KEY}, LAMBDA keys :
    IF keys = {} THEN None
    ELSE
    Let(SetMin(keys) + Len(COOKIE_KEY), LAMBDA first :
    Let({q \in first..Len(text) : text[q] = "\""}, LAMBDA quotes :
        IF quotes = {} THEN None
        ELSE Some(SubSeq(text, first, SetMin(quotes) - 1)))))

\* The fragment of the payload's annotation, as an Option.
CookieFragment(json) ==
    IF is_some(CookieAnnotation(json)) THEN Fragment(CookieAnnotation(json)[1]) ELSE None

\* A text percent-decoded twice, as an Option: None when one of the two
\* decodings does not give text.
DecodedTwice(text) ==
    Let(decode(text), LAMBDA once :
        IF ~once.ok THEN None
        ELSE Let(decode(once.val), LAMBDA twice :
                 IF ~twice.ok THEN None ELSE Some(twice.val)))

\* C21 as stated: the decoder yields a cursor exactly when the annotation is
\* a string with a pagingcookie="..." fragment, and the cursor is then the
\* fragment's value percent-decoded twice.
C21_CursorIffFragment ==
    Returned("extract_paging_cookie") =>
        /\ is_some(ret.val) <=> is_some(CookieFragment(args.json))
        /\ is_some(ret.val) => ret.val = DecodedTwice(CookieFragment(args.json)[1])

\* C21: the decoder yields a cursor exactly when the annotation is a string
\* with a pagingcookie="..." fragment whose value percent-decodes twice into
\* text, and the cursor is then that text; in every other case, a fragment
\* that does not decode included, the cursor is absent and nothing fails.
C21_CursorIffDecodableFragment ==
    Returned("extract_paging_cookie") =>
        /\ Len(ret.val) <= 1
        /\ ret.val = IF is_some(CookieFragment(args.json))
                     THEN DecodedTwice(CookieFragment(args.json)[1])
                     ELSE None
        /\ is_some(ret.val) <=>
              /\ is_some(CookieFragment(args.json))
              /\ is_some(DecodedTwice(CookieFragment(args.json)[1]))

\* C21 witness: the annotation's fragment %25FF decodes once and not twice,
\* and the decoder returned no cursor.
C21_Witness ==
    /\ Returned("extract_paging_cookie")
    /\ CookieAnnotation(args.json) = Some(COOKIE_TWICE_UNDECODABLE)
    /\ is_some(CookieFragment(args.json))
    /\ ret.val = None

\* The elements of the payload's `value` array.
PayloadRows(json) == json.v["value"].v

\* C22: a decoded Row has an attribute for every field of its JSON object,
\* and no other, each of one of the five variants; arrays and objects are no
\* exception.
C22_EveryFieldDecoded ==
    (Returned("parse_entities_from_response") /\ ret.val.ok) =>
        /\ Len(ret.val.val) = Len(PayloadRows(args.json))
        /\ \A i \in 1..Len(ret.val.val) :
             /\ DOMAIN ret.val.val[i] = DOMAIN PayloadRows(args.json)[i].v
             /\ \A k \in DOMAIN ret.val.val[i] :
                  ret.val.val[i][k].variant \in {"Int", "Float", "String", "Boolean", "Null"}

\* The JSON numbers of the payload's rows, each with what it was decoded to:
\* records of the row's index, the key, the number and the Row's attributes.
DecodedNumbers ==
    {[n |-> PayloadRows(args.json)[i].v[k], row |-> ret.val.val[i], key |-> k] :
        <<i, k>> \in {<<j, l>> \in (1..Len(ret.val.val)) \X {"n", "neg", "zero", "five", "max",
                                     "over", "odd", "top", "two", "hundred", "minus",
                                     "__rownum"} :
                         /\ l \in DOMAIN PayloadRows(args.json)[j].v
                         /\ PayloadRows(args.json)[j].v[l].t = "number"}}

\* C23: an integer of the wire within i64 becomes Int with its value, an
\* unsigned integer above i64::MAX the nearest Float, every other number the
\* Float of its value; the same number is decoded to the same value under
\* every key and in every row.
C23_IntegerFirst ==
    (Returned("parse_entities_from_response") /\ ret.val.ok) =>
        /\ \A d \in DecodedNumbers :
             /\ d.key \in DOMAIN d.row
             /\ IF d.n.n \in {"PosInt", "NegInt"} /\ d.n.v >= -I64_MAX - 1 /\ d.n.v <= I64_MAX
                THEN d.row[d.key] = Value_Int(d.n.v)
                ELSE IF d.n.n = "PosInt"
                THEN /\ d.row[d.key].variant = "Float"
                     /\ d.row[d.key].v % F64_ULP = 0
                     /\ 2 * (d.row[d.key].v - d.n.v) \in (-F64_ULP)..F64_ULP
                ELSE d.row[d.key] = Value_Float(d.n.v)
        /\ \A d, e \in DecodedNumbers :
             (d.n.n = e.n.n /\ d.n.v = e.n.v) => d.row[d.key] = e.row[e.key]

\* C23 witness: a page whose rows hold i64::MAX, the integer after it, a
\* number with a fraction part and the same integer under two keys was decoded.
C23_Witness ==
    /\ Returned("parse_entities_from_response") /\ ret.val.ok
    /\ Len(ret.val.val) = 2
    /\ "max" \in DOMAIN ret.val.val[2] /\ "n" \in DOMAIN ret.val.val[1]
    /\ ret.val.val[2]["max"] = Value_Int(I64_MAX)
    /\ ret.val.val[2]["over"] = Value_Float(I64_MAX + 1)
    /\ ret.val.val[2]["top"] = Value_Float(2 * I64_MAX + 2)
    /\ ret.val.val[2]["two"] = Value_Float(2)
    /\ ret.val.val[2]["five"] = ret.val.val[1]["n"]

\* C24: for a query whose root tag has a top attribute, each of the two
\* operations sends one request, and against the same server retrieve_count
\* returns the number of rows retrieve_rows returns.
C24_TopCountIsRowCount ==
    (ValidQuery(fetchxml[1]) /\ HasAttr(fetchxml[1], ATTR_TOP)) =>
        /\ \A c \in Calls : Len(sent[c]) <= 1
        /\ (Done(1) /\ Done(2)) =>
             /\ Len(sent[1]) = 1 /\ Len(sent[2]) = 1
             /\ Res(1).ok <=> Res(2).ok
             /\ Res(1).ok => Res(2).val = Len(Res(1).val)

RECURSIVE LoopAlone(_, _, _, _, _, _)
\* The paging loop of one retrieval run on its own against a server that
\* answers as srv does, from the given page on: None while srv has no answer
\* for the next request, else Some of what the retrieval returns.
LoopAlone(op, query, page_no, cursor, so_far, srv) ==
    Let(build_fetch_with_paging(query, page_no, cursor), LAMBDA built :
    IF ~built.ok THEN Some(built)
    ELSE IF built.val \notin DOMAIN srv THEN None
    ELSE
    Let(IF op = "rows" THEN rows_page(Responses[srv[built.val]], so_far)
                       ELSE count_page(Responses[srv[built.val]], so_far), LAMBDA got :
    IF ~got.ok THEN Some(got)
    ELSE
    Let(IF op = "rows" THEN got.val.entities ELSE got.val.total, LAMBDA acc :
        IF ~got.val.more_records THEN Some(Ok(acc))
        ELSE LoopAlone(op, query, page_no + 1, got.val.paging_cookie, acc, srv))))

\* One retrieval run on its own against the server srv, as an Option.
Alone(op, query, srv) ==
    Let(fetch_tag_has_attr(query, ATTR_TOP), LAMBDA has :
    IF ~has.ok THEN Some(has)
    ELSE IF ~has.val THEN LoopAlone(op, query, 1, None, IF op = "rows" THEN <<>> ELSE 0, srv)
    ELSE IF query \notin DOMAIN srv THEN None
    ELSE
    Let(single_page(Responses[srv[query]]), LAMBDA rows :
        IF ~rows.ok \/ op = "rows" THEN Some(rows) ELSE Some(Ok(Len(rows.val)))))

\* C25: of two retrievals run concurrently on one client, each has returned,
\* once both are back, what it returns when run alone against the same
\* server; each sends as many requests as its own page counter says and
\* numbers its rows from 1.
C25_IndependentRetrievals ==
    \A c \in Calls :
        /\ (\A d \in Calls : Done(d)) =>
               Some(Res(c)) = Alone(operation[c], fetchxml[c], served)
        /\ Paged(c) => Len(sent[c]) \in {page[c] - 1, page[c]}
        /\ (Done(c) /\ Res(c).ok /\ operation[c] = "rows" /\ Paged(c)) =>
             \A i \in 1..Len(Res(c).val) :
                Res(c).val[i][ROW_NUMBER_ATTRIBUTE] = Value_Int(i)

\* C25 witness: the first retrieval returned the rows of three pages while
\* the second one, of the same query, waits for its second page with the
\* rows of its first.
C25_Witness ==
    /\ operation[2] = "rows" /\ fetchxml[2] = fetchxml[1]
    /\ Done(1) /\ Res(1).ok /\ Len(sent[1]) = 3 /\ Len(Res(1).val) >= 3
    /\ pc[2] = "await" /\ Len(sent[2]) = 2 /\ Len(entities[2]) >= 1

\* The lines a Debug client prints for its requests: three for a request of
\* the paging loop, two for the single request.
DebugLines(c) ==
    IF Paged(c)
    THEN [k \in 1..(3 * Len(sent[c])) |->
             CASE k % 3 = 1 -> LOG_FETCH_PAGE \o to_string((k + 2) \div 3)
               [] k % 3 = 2 -> LOG_FETCHXML \o sent[c][(k + 1) \div 3]
               [] k % 3 = 0 -> print_url(url(BASE_URL, ENTITY_SET, sent[c][k \div 3]))]
    ELSE [k \in 1..(2 * Len(sent[c])) |->
             IF k = 1 THEN LOG_FETCHXML \o sent[c][1]
             ELSE print_url(url(BASE_URL, ENTITY_SET, sent[c][1]))]

\* C26: a Debug client and an Information client given the same operation
\* and query against the same server send the same requests in the same
\* order and return the same result or error; only the Debug client prints,
\* and what it prints are its requests.
C26_LogLevelNoEffect ==
    (log_level[1] = "Debug" /\ log_level[2] = "Information") =>
        /\ \A n \in 1..Len(sent[1]) : n <= Len(sent[2]) => sent[1][n] = sent[2][n]
        /\ (Done(1) /\ Done(2)) => (sent[1] = sent[2] /\ Res(1) = Res(2))
        /\ stdout[2] = <<>>
        /\ stdout[1] = DebugLines(1)

\* C26 witness: both clients returned the same rows after three requests,
\* the last one with an escaped cursor, and the Debug client printed nine
\* lines.
C26_Witness ==
    /\ log_level[1] = "Debug" /\ log_level[2] = "Information"
    /\ Done(1) /\ Done(2) /\ Res(1).ok /\ Res(2).ok
    /\ Len(sent[1]) = 3 /\ Len(sent[2]) = 3
    /\ served[sent[1][2]] = 2
    /\ Len(stdout[1]) = 9

\* The attributes of the root tag other than those named, in order, each
\* with its quote character and value.
OtherAttrs(text, names) ==
    Let(RootTag(text), LAMBDA tag :
        SelectSeq([n \in 1..Len(tag.attrs) |->
                      [name  |-> tag.attrs[n].name,
                       quote |-> tag.attrs[n].quote,
                       value |-> tag.attrs[n].value]],
                  LAMBDA a : a.name \notin names))

\* The text after the root tag's closing '>'.
AfterRootTag(text) == SubSeq(text, RootTag(text).close + 1, Len(text))

\* The result has a root tag where the query has it, the same text after it,
\* and the same attributes in it but for those named.
OnlyRootTagEdited(before, after, names) ==
    /\ RootTag(after).ok
    /\ AfterRootTag(after) = AfterRootTag(before)
    /\ OtherAttrs(after, names) = OtherAttrs(before, names)

\* The attributes the function called is to write.
Targeted ==
    CASE ret.fn = "upsert_fetch_attr" -> {args.name}
      [] ret.fn = "apply_paging" -> {ATTR_PAGE, ATTR_PAGING_COOKIE}
      [] ret.fn = "ensure_aggregate_page_size" -> {ATTR_COUNT}
      [] OTHER -> {}

\* C27: upsert_fetch_attr, apply_paging and ensure_aggregate_page_size,
\* given a query with a well-formed root tag, return a text that begins with
\* the root tag as the query does, has the query's text after the root tag's
\* closing '>', and whose root tag differs from the query's in the targeted
\* attribute only.
C27_OnlyRootTagEdited ==
    (ret # NotCalled /\ ret.fn # "fetch_tag_has_attr" /\ ValidQuery(args.fetchxml)) =>
        /\ ret.val.ok
        /\ OnlyRootTagEdited(args.fetchxml, ret.val.val, Targeted)

\* C28: every row of a successful retrieve_rows, whether the retrieval was
\* paged or made with a single request, has the attribute __rownum, and its
\* value is Int(i) for the i-th row returned, whatever the payload row had
\* under that name.
C28_EveryRowNumbered ==
    \A c \in Calls :
        (operation[c] = "rows" /\ Done(c) /\ Res(c).ok) =>
            \A i \in 1..Len(Res(c).val) :
                /\ ROW_NUMBER_ATTRIBUTE \in DOMAIN Res(c).val[i]
                /\ Res(c).val[i][ROW_NUMBER_ATTRIBUTE] = Value_Int(i)

\* C29: in a paged retrieval the n-th request has the page attribute n, and
\* it has a paging-cookie attribute only when n > 1 and the answer to
\* request n - 1 yielded a cursor, the value then being that cursor escaped;
\* a paging-cookie of the caller's query is in no request.
C29_CallerPagingNeverSent ==
    \A c \in Calls : Paged(c) =>
        \A n \in 1..Len(sent[c]) :
            /\ Values(sent[c][n], ATTR_PAGE) = <<to_string(n)>>
            /\ \E cursor \in {IF n > 1 THEN extract_paging_cookie(Resp(c, n - 1).json[1])
                              ELSE None} :
                 Values(sent[c][n], ATTR_PAGING_COOKIE) =
                     IF is_some(cursor) THEN <<escape_xml_attribute(cursor[1])>> ELSE <<>>

\* The cache holds for the key a non-blank token whose expiry is known and
\* more than 300 seconds away.
CacheValid(key) ==
    /\ key \in DOMAIN cache
    /\ ~trim_is_empty(cache[key].access_token)
    /\ is_some(cache[key].expires_at)
    /\ cache[key].expires_at[1] > now + REFRESH_SKEW_SECS

\* C30: a call of get_access_token returns the cached token without a token
\* request and leaves the cache as it is exactly when the cache holds a
\* valid token for the key; otherwise it makes one token request, and either
\* stores the token fetched under the key and returns it, no other key
\* touched, or returns the error and leaves the cache as it is. A token
\* returned Ok is the one the cache holds for the key.
C30_TokenCache ==
    [][(now' = now /\ ret'.fn = "get_access_token") =>
          /\ CacheValid(ret'.key) =>
                /\ ret'.requests = 0
                /\ ret'.val = Ok(cache[ret'.key].access_token)
                /\ cache' = cache
          /\ ~CacheValid(ret'.key) =>
                /\ ret'.requests = 1
                /\ ret'.val.ok =>
                      /\ DOMAIN cache' = DOMAIN cache \cup {ret'.key}
                      /\ \A k \in DOMAIN cache : k # ret'.key => cache'[k] = cache[k]
                      /\ cache'[ret'.key].expires_at # None
                /\ ~ret'.val.ok => ("err" \in DOMAIN ret'.val /\ cache' = cache)
          /\ ret'.val.ok => cache'[ret'.key].access_token = ret'.val.val]_vars

====
